---- MODULE Spec2Model ----
(***************************************************************************)
(* Escrow settlement engine of backend/app.py, modelled for one escrow     *)
(* record.  Every store call (supabase ...execute()) and every rail call   *)
(* (Tatum, PayPal) of a handler is one atomic step; handlers run           *)
(* concurrently, one per request slot (thread-per-request).  A store read  *)
(* whose result is only used by the rail call that follows it is taken     *)
(* together with that rail call.                                           *)
(*                                                                         *)
(* Environment assumptions: a store call fails only where its action has   *)
(* a `raises` outcome or the store rejects the row;                        *)
(* callers are the escrow's buyer, its seller or an admin (other users     *)
(* are rejected with 403 before any write); a crypto transfer can only     *)
(* succeed when the deposit wallet holds the amount, a void only on an     *)
(* open authorization, a capture only on an open or already captured one.  *)
(***************************************************************************)
EXTENDS Integers, FiniteSets, Sequences, TLC

(***************************************************************************)
(* Bounds and inputs                                                       *)
(***************************************************************************)
\* request slots: the number of handlers that can be in flight together
NumSlots == 2
\* how many times release_funds may be entered in one behaviour
MaxRelCalls == 2
\* cap on TransactionRecord rows of one type
MaxTx == 2
\* escrow.amount and escrow.platform_fee_amount, in native units
Amount == 3
FeeAmount == 1
NetAmount == Amount - FeeAmount
\* the buyer can pay into the deposit address up to twice the amount
MaxIncoming == 2 * Amount
\* cap on the wallets the crypto rail generates for the escrow
MaxGen == 2
\* the commission of the escrow, in USD: round(platform_fee_usd * REFERRAL_RATE, 2)
Commission == 5
\* cap on the referral_withdrawals rows of one behaviour
MaxWithdrawals == 2
\* minimum and maximum of one withdrawal, in USD
MIN_WITHDRAW_USD == 5
MAX_WITHDRAW_USD == 10000
\* longest tier list of a pricing rule
MaxTiers == 2
\* largest escrow amount, in units of 1e-8, and largest USD price of a unit
MaxAmountUnits == 60
MaxPrice == 2
\* fee rates in basis points (0.02, 0.015) and the USD threshold of the tier
FEE_BPS == 200
FEE_BPS_LARGE == 150
FEE_TIER_USD == 50
BPS == 10000
\* carts: number of cart lines, of listings and the largest quantity of a line
MaxCart == 2
NumListings == 2
MaxQty == 2
\* escrows rows in the store
MaxEscrows == 2
\* cap on the escrows rows cart_finalize inserts for one session
MaxSessionEscrows == MaxCart + 2
\* calls of trigger_delivery_callback in one behaviour
MaxNotifyCalls == 3
OUTBOUND_CALLBACK_RETRY_MAX == 3
\* authorization orders the card rail creates in one behaviour
MaxOrders == 2
\* USD price of a coin (0: price unavailable) and units of 1e-8 to the coin,
\* scaled down
CoinPrice == 3
UnitsPerCoin == 10
\* the amounts a withdrawal request asks for
WithdrawAmounts ==
    ((MIN_WITHDRAW_USD - 1)..(Commission + 1))
        \cup {MAX_WITHDRAW_USD, MAX_WITHDRAW_USD + 1}

Slots == 1..NumSlots
Parties == {"buyer", "seller"}
Actions == {"release", "cancel"}
Terminal == {"completed", "cancelled", "refunded", "dispute_resolved"}
TxTypes == {"deposit", "release", "platform_fee", "refund"}

VARIABLES
    status,                   \* escrows.status
    buyer_action,             \* escrows.buyer_action
    seller_action,            \* escrows.seller_action
    payment_method,           \* escrows.payment_method
    seller_details,           \* seller_address / seller_paypal_email is set
    paypal_authorization_id,  \* escrows.paypal_authorization_id is set
    tx,                       \* transactions rows of the escrow, per type
    incoming,                 \* crypto rail: total paid into the deposit address
    outgoing,                 \* crypto rail: total sent out of the deposit address
    hold,                     \* card rail: state of the order's authorization
    fee_addr,                 \* get_fee_address(currency) is configured
    req,                      \* the handler running in each request slot
    relCalls,                 \* history: entries into release_funds
    sellerPaid,               \* history: successful net-amount transfers
    walletCache,              \* ESCROW_WALLET_IDS[escrow_id]: wallet id, 0 if absent
    walletRows,               \* escrow_wallets rows of the escrow (wallet ids)
    generated,                \* wallets the crypto rail has generated for the escrow
    returned,                 \* history: addresses generate_crypto_address returned
    wreq,                     \* the wallet call running in each request slot
    sentFrom,                 \* history: wallets that sends have signed with
    has_referrer,             \* profiles.referred_by of the buyer is set
    payouts,                  \* referral_payouts rows of the escrow
    commCredits,              \* referral_ledger escrow_commission credits of the escrow
    balance,                  \* referrer's ledger: sum of credits - sum of debits
    areq,                     \* the award_referral_payout call in each slot
    wdreq,                    \* the referral_withdraw request in each slot
    withdrawals,              \* referral_withdrawals rows inserted so far
    efee,                     \* amount, platform_fee_amount and net_amount of a new escrow row
    cart,                     \* cart_items rows of the checkout user
    session,                  \* the checkout_sessions row
    ppOrders,                 \* card rail: totals of the authorization orders created
    freq,                     \* the cart_finalize call running in each request slot
    fulfillment_status,       \* escrows.fulfillment_status
    fulfillment_attempts,     \* escrows.fulfillment_attempts
    nreq,                     \* the running trigger_delivery_callback call
    ncalls,                   \* history: entries into trigger_delivery_callback
    escrows,                  \* escrows rows that create_escrow has inserted
    creq,                     \* the running create_escrow request
    creply,                   \* status code of the last create_escrow response, 0: none
    deposit_address,          \* escrows.deposit_address is set
    cpReply,                  \* the last check-payment response not yet taken
    lockOwner,                \* the thread holding wallet_cache_lock, 0: free
    lthr,                     \* the wallet function each thread is in, at lock granularity
    priceArgs,                \* arguments of the apply_pricing_rules call
    priced,                   \* its result in cents, -1: not called yet
    buyerRefunded,            \* history: successful refund sends to the buyer
    sessionEscrows            \* history: escrows rows inserted for the checkout session

vars == <<status, buyer_action, seller_action, payment_method, seller_details,
          paypal_authorization_id, tx, incoming, outgoing, hold, fee_addr,
          req, relCalls, sellerPaid, walletCache, walletRows, generated,
          returned, wreq, sentFrom, has_referrer, payouts, commCredits, balance, areq,
          wdreq, withdrawals, efee, cart, session, ppOrders, freq,
          fulfillment_status, fulfillment_attempts, nreq, ncalls,
          escrows, creq, creply, deposit_address, cpReply, lockOwner, lthr,
          priceArgs, priced, buyerRefunded, sessionEscrows>>

\* the escrow record, its ledger rows and rails
coreVars == <<status, buyer_action, seller_action, payment_method, seller_details,
              paypal_authorization_id, tx, incoming, outgoing, hold, fee_addr,
              req, relCalls, sellerPaid>>
walletVars == <<walletCache, walletRows, generated, returned, wreq, sentFrom>>
\* what the escrow's own handlers never touch
refVars == <<has_referrer, payouts, commCredits, balance, areq, wdreq, withdrawals>>
cartVars == <<cart, session, ppOrders, freq, sessionEscrows>>
\* what the fee, wallet and referral handlers never touch
notifVars == <<fulfillment_status, fulfillment_attempts, nreq, ncalls>>
createVars == <<escrows, creq, creply>>
checkVars == <<deposit_address, cpReply>>
lockVars == <<lockOwner, lthr>>
\* the in-process helpers: the cache mutex
pricingVars == <<priceArgs, priced>>
refundVars == <<buyerRefunded>>
utilVars == <<lockVars, pricingVars, refundVars>>
\* what the refund sends leave alone outside the escrow and its rails
nonRefundVars == <<walletVars, refVars, efee, cartVars, notifVars, createVars,
                   checkVars, lockVars, pricingVars>>
otherVars == <<cartVars, notifVars, createVars, checkVars, utilVars>>
extVars == <<efee, otherVars>>
auxVars == <<walletVars, refVars, extVars>>
nonCartVars == <<coreVars, walletVars, refVars, efee, notifVars, createVars, checkVars,
                  utilVars>>
nonNotifVars == <<coreVars, walletVars, refVars, efee, cartVars, createVars, checkVars,
                  utilVars>>
nonCreateVars == <<coreVars, walletVars, refVars, efee, cartVars, notifVars, checkVars,
                  utilVars>>

escrowVars == <<status, buyer_action, seller_action, payment_method,
                seller_details, paypal_authorization_id>>
railVars == <<incoming, outgoing, hold>>

\* kind, pc: the handler and its position; user, action: its inputs;
\* rstatus, other: the status and the other party's action it read;
\* agreed: both actions were release once its own was recorded; called: it has
\* entered release_funds; feeRes, sellerRes: outcome of the fee send (capture
\* on the card rail) and of the seller send (payout); ok: the result of
\* release_funds
IdleReq == [kind |-> "none", pc |-> "idle", user |-> "none", action |-> "none",
            rstatus |-> "none", other |-> "none", agreed |-> FALSE,
            called |-> FALSE, ok |-> FALSE, feeRes |-> "none",
            sellerRes |-> "none", code |-> 0, body |-> "none"]

Balance == incoming - outgoing

\* a request takes the lowest free slot
CanStart(r) == /\ req[r].pc = "idle"
               /\ \A q \in Slots : q < r => req[q].pc # "idle"

Set(r, rec) == req' = [req EXCEPT ![r] = rec]

\* no wallet call in flight; kind: generate_crypto_address called on its own
\* ("gen") or by the admin regenerate_wallet action ("regen"); w: the wallet
\* the rail generated for this call; old: the wallets known before a regen
IdleW == [kind |-> "none", pc |-> "idle", w |-> 0, old |-> {}]

\* the cache is empty, no wallet row, nothing generated yet
WalletInit ==
    /\ walletCache = 0
    /\ walletRows = {}
    /\ generated = 0
    /\ returned = {}
    /\ wreq = [r \in Slots |-> IdleW]
    /\ sentFrom = {}

\* no accrual call in flight
IdleA == [pc |-> "idle"]

\* no withdrawal in flight; amt: the amount asked; status: the
\* referral_withdrawals row's status; comp: compensating credits written;
\* deb: ledger debits written; tx: send_platform_crypto returned a tx hash
IdleWd == [pc |-> "idle", amt |-> 0, status |-> "none", comp |-> 0, deb |-> 0,
           tx |-> FALSE]

\* an empty ledger; the buyer was referred or not
ReferralInit ==
    /\ has_referrer \in BOOLEAN
    /\ payouts = 0
    /\ commCredits = 0
    /\ balance = 0
    /\ areq = [r \in Slots |-> IdleA]
    /\ wdreq = [r \in Slots |-> IdleWd]
    /\ withdrawals = 0

\* no escrow row inserted yet; via: the handler that inserted it; has_fee:
\* platform_fee_amount and net_amount are set (not null); amounts in units
\* of 1e-8, the rounding step of the fee computation; rate, usd: the
\* platform_fee_rate (basis points) and usd_amount the fee computation gave
NoEscrow == [via |-> "none", pm |-> "none", amount |-> 0, has_fee |-> FALSE,
             rate |-> 0, usd |-> 0, fee |-> 0, net |-> 0]

FeeInit == efee = NoEscrow

\* no checkout session yet
NoSession == [status |-> "none", groups |-> <<>>, crypto_aggregators |-> <<>>,
              orders |-> <<>>]

\* a cart_finalize call: position in the fan-out, paypal_auth_ids and the
\* escrows it has inserted
IdleF == [pc |-> "idle", g |-> 0, i |-> 0, auth_ids |-> {}, made |-> <<>>]

\* cart_items rows: listing, quantity, payment method and selected currency
\* ("": none selected)
CartItems ==
    [listing_id : 1..NumListings, quantity : 1..MaxQty,
     payment_method : {"crypto"}, selected_currency : {"BTC", "ETH"}]
    \cup [listing_id : 1..NumListings, quantity : 1..MaxQty,
          payment_method : {"paypal"}, selected_currency : {"", "USD"}]

Carts == UNION {[1..n -> CartItems] : n \in 0..MaxCart}

CartIdle ==
    /\ session = NoSession
    /\ ppOrders = <<>>
    /\ freq = [r \in Slots |-> IdleF]
    /\ sessionEscrows = 0

CartInit == cart = <<>> /\ CartIdle

\* no delivery callback running; last: what the last POST of the call gave
IdleN == [pc |-> "idle", attempts |-> 0, last |-> "none", got2xx |-> FALSE]

NotifInit ==
    /\ fulfillment_status = "none"
    /\ fulfillment_attempts = 0
    /\ nreq = IdleN
    /\ ncalls = 0

\* no create_escrow request running; n0: rows in the store when the request
\* began; rolled: the last request deleted its row again
IdleC == [pc |-> "idle", pm |-> "none", n0 |-> 0, rolled |-> FALSE]

CreateInit ==
    /\ escrows = <<>>
    /\ creq = IdleC
    /\ creply = 0

NoReply == [status |-> "none", read |-> "none"]

\* create_escrow has stored the deposit address of a crypto escrow
CheckInit ==
    /\ deposit_address = (payment_method = "crypto")
    /\ cpReply = NoReply

\* a thread outside the wallet functions
IdleT == [fn |-> "none", pc |-> "idle", w |-> 0]

\* the mutex is free
LockInit ==
    /\ lockOwner = 0
    /\ lthr = [t \in Slots |-> IdleT]

\* rules: None
NoRules == [present |-> FALSE]
\* no entry for the payment method under "methods"
NoMethod == [present |-> FALSE]
\* no entry for the currency under "currencies"
NoCurrencyRule == [present |-> FALSE]

\* no apply_pricing_rules call yet
PricingInit ==
    /\ priceArgs = [base |-> 0, payment_method |-> "crypto", currency |-> "none",
                    rules |-> NoRules]
    /\ priced = -1

\* nothing was sent back to the buyer
RefundInit == buyerRefunded = 0

UtilInit == LockInit /\ PricingInit /\ RefundInit

OtherInit == CartInit /\ NotifInit /\ CreateInit /\ CheckInit /\ UtilInit

\* outside the wallet and referral models the buyer is a referred one
AuxInit == WalletInit /\ ReferralInit /\ has_referrer /\ FeeInit /\ OtherInit

(***************************************************************************)
(* State after create_escrow has returned 201                              *)
(***************************************************************************)
CoreInit ==
    /\ status = "pending"
    /\ buyer_action = "none"
    /\ seller_action = "none"
    /\ payment_method \in {"crypto", "paypal"}
    /\ seller_details = FALSE
    /\ paypal_authorization_id = FALSE
    /\ tx = [t \in TxTypes |-> 0]
    /\ incoming = 0
    /\ outgoing = 0
    /\ hold = "none"
    /\ fee_addr \in BOOLEAN
    /\ req = [r \in Slots |-> IdleReq]
    /\ relCalls = 0
    /\ sellerPaid = 0

Init == CoreInit /\ AuxInit

\* a crypto escrow right after its insert, before its wallet exists
InitWallet == CoreInit /\ payment_method = "crypto" /\ fee_addr /\ AuxInit

\* an escrow of either payment method, the buyer referred or not
InitReferral ==
    CoreInit /\ fee_addr /\ WalletInit /\ ReferralInit /\ FeeInit /\ OtherInit

\* the checkout user has filled the cart; nothing is checked out yet
InitCart ==
    /\ CoreInit /\ payment_method = "crypto" /\ fee_addr
    /\ WalletInit /\ ReferralInit /\ has_referrer /\ FeeInit
    /\ cart \in Carts
    /\ CartIdle
    /\ NotifInit /\ CreateInit /\ CheckInit /\ UtilInit

(***************************************************************************)
(* Environment: the buyer pays the deposit address / approves the order    *)
(***************************************************************************)
Deposit ==
    /\ payment_method = "crypto"
    /\ incoming + Amount <= MaxIncoming
    /\ incoming' = incoming + Amount
    /\ UNCHANGED <<escrowVars, tx, outgoing, hold, fee_addr, auxVars, req, relCalls, sellerPaid>>

BuyerApproves ==
    /\ payment_method = "paypal"
    /\ hold = "none"
    /\ hold' = "open"
    /\ UNCHANGED <<escrowVars, tx, incoming, outgoing, fee_addr, auxVars, req, relCalls, sellerPaid>>

(***************************************************************************)
(* set_seller_details                                                      *)
(***************************************************************************)
SetSellerDetails ==
    /\ status \in {"pending", "funded"}
    /\ seller_details' = TRUE
    /\ UNCHANGED <<status, buyer_action, seller_action, payment_method,
                   paypal_authorization_id, tx, railVars, fee_addr, auxVars, req,
                   relCalls, sellerPaid>>

(***************************************************************************)
(* Funding detection                                                       *)
(***************************************************************************)
\* variant: the balance has to exceed the amount
check_crypto_payment_Above(read_ok) == read_ok /\ incoming > Amount

\* check_crypto_payment: bal >= float(expected_amount); a failed balance
\* read reports False
check_crypto_payment(read_ok) == read_ok /\ incoming >= Amount

check_payment_status ==
    /\ payment_method = "crypto"
    /\ \E read_ok \in BOOLEAN :
         /\ check_crypto_payment(read_ok)
         /\ status = "pending"
         /\ status' = "funded"
         /\ tx' = [tx EXCEPT !["deposit"] = @ + 1]
    /\ UNCHANGED <<buyer_action, seller_action, payment_method, seller_details,
                   paypal_authorization_id, railVars, fee_addr, auxVars, req, relCalls,
                   sellerPaid>>

handle_paypal_authorization ==
    /\ hold # "none"                      \* get_authorization_id_from_order
    /\ status = "pending"                 \* .eq('status', 'pending')
    /\ status' = "funded"
    /\ paypal_authorization_id' = TRUE
    /\ tx' = [tx EXCEPT !["deposit"] = @ + 1]
    /\ UNCHANGED <<buyer_action, seller_action, payment_method, seller_details,
                   railVars, fee_addr, auxVars, req, relCalls, sellerPaid>>

(***************************************************************************)
(* Rails                                                                   *)
(***************************************************************************)
\* send_crypto_transaction_kms(escrow_id, to, amt): res is whether a tx
\* reference came back; any failure or exception inside reports False
send_crypto_transaction_kms(amt, res) ==
    /\ res => Balance >= amt
    /\ outgoing' = IF res THEN outgoing + amt ELSE outgoing

\* the capture call of release_paypal_funds_to_seller (status 201 or not)
paypal_capture(res) ==
    /\ res => hold \in {"open", "captured"}
    /\ hold' = IF res THEN "captured" ELSE hold

\* void_paypal_authorization (status 204 or not)
void_paypal_authorization(res) ==
    /\ res => hold = "open"
    /\ hold' = IF res THEN "voided" ELSE hold

(***************************************************************************)
(* confirm_escrow                                                          *)
(***************************************************************************)
\* select the escrow, check the seller details, compute other_action
confirm_read(r, u, a) ==
    /\ CanStart(r)
    /\ ~(a = "release" /\ ~seller_details)
    /\ Set(r, [IdleReq EXCEPT !.kind = "confirm", !.pc = "upd", !.user = u,
                              !.action = a, !.rstatus = status,
                              !.other = IF u = "buyer" THEN seller_action
                                                       ELSE buyer_action])
    /\ UNCHANGED <<escrowVars, tx, railVars, fee_addr, auxVars, relCalls, sellerPaid>>

\* variant: agreement is only acted on for release
AfterAction_ReleaseOnly(a, other) ==
    IF other = a /\ a = "release" THEN "flip" ELSE "idle"

\* what the handler does once its own action is recorded
AfterAction(a, other) ==
    IF other = a THEN (IF a = "release" THEN "flip" ELSE "cancel")
    ELSE "idle"

\* variant: the update is not conditioned on the status read
UpdateMatches_Unconditional(r) == TRUE

\* the row still has the status the request read: .eq('status', ...) matches
UpdateMatches(r) == status = req[r].rstatus

\* update(update_data).eq('status', escrow.data['status']); no row updated
\* sends the request to the re-fetch
confirm_update(r) ==
    /\ req[r].kind = "confirm" /\ req[r].pc = "upd"
    /\ IF UpdateMatches(r)
       THEN /\ buyer_action' = IF req[r].user = "buyer" THEN req[r].action
                                                         ELSE buyer_action
            /\ seller_action' = IF req[r].user = "seller" THEN req[r].action
                                                           ELSE seller_action
            /\ IF AfterAction(req[r].action, req[r].other) = "idle"
               THEN Set(r, IdleReq)
               ELSE Set(r, [req[r] EXCEPT
                              !.pc = AfterAction(req[r].action, req[r].other),
                              !.agreed = (buyer_action' = "release"
                                          /\ seller_action' = "release")])
       ELSE /\ Set(r, [IdleReq EXCEPT !.kind = "confirm", !.pc = "refetch"])
            /\ UNCHANGED <<buyer_action, seller_action>>
    /\ UNCHANGED <<status, payment_method, seller_details,
                   paypal_authorization_id, tx, railVars, fee_addr, auxVars, relCalls,
                   sellerPaid>>

\* status changed: select the escrow again
confirm_refetch(r) ==
    /\ req[r].kind = "confirm" /\ req[r].pc = "refetch"
    /\ Set(r, [req[r] EXCEPT !.pc = "return", !.code = 200, !.body = status])
    /\ UNCHANGED <<escrowVars, tx, railVars, fee_addr, auxVars, relCalls, sellerPaid>>

\* return jsonify(escrow.data), 200
confirm_return(r) ==
    /\ req[r].kind = "confirm" /\ req[r].pc = "return"
    /\ Set(r, IdleReq)
    /\ UNCHANGED <<escrowVars, tx, railVars, fee_addr, auxVars, relCalls, sellerPaid>>

\* the path taken when the conditional update matched no row
confirm_conflict(r) == confirm_refetch(r) \/ confirm_return(r)

\* the status the flip to processing is conditioned on
FlipFrom(r) == req[r].rstatus

\* update({'status': 'processing'}).eq('status', escrow.data['status']),
\* then the call of release_funds by the request that won
confirm_flip(r) ==
    /\ req[r].kind = "confirm" /\ req[r].pc = "flip"
    /\ IF status = FlipFrom(r)
       THEN /\ relCalls < MaxRelCalls
            /\ status' = "processing"
            /\ relCalls' = relCalls + 1
            /\ Set(r, [req[r] EXCEPT !.pc = "rel", !.called = TRUE])
       ELSE /\ Set(r, IdleReq)
            /\ UNCHANGED <<status, relCalls>>
    /\ UNCHANGED <<buyer_action, seller_action, payment_method, seller_details,
                   paypal_authorization_id, tx, railVars, fee_addr, auxVars, sellerPaid>>

\* variant: a failed release rolls the escrow back to funded
StatusAfterRelease_Rollback(success) == IF success THEN "completed" ELSE "funded"

\* status written after release_funds has returned
StatusAfterRelease(success) == IF success THEN "completed" ELSE "release_failed"

confirm_finish(r) ==
    /\ req[r].kind = "confirm" /\ req[r].pc = "fin"
    /\ status' = StatusAfterRelease(req[r].ok)
    /\ Set(r, IdleReq)
    /\ UNCHANGED <<buyer_action, seller_action, payment_method, seller_details,
                   paypal_authorization_id, tx, railVars, fee_addr, auxVars, relCalls,
                   sellerPaid>>

\* both parties agreed to cancel
confirm_cancel(r) ==
    /\ req[r].kind = "confirm" /\ req[r].pc = "cancel"
    /\ status' = "cancelled"
    /\ Set(r, IdleReq)
    /\ UNCHANGED <<buyer_action, seller_action, payment_method, seller_details,
                   paypal_authorization_id, tx, railVars, fee_addr, auxVars, relCalls,
                   sellerPaid>>

(***************************************************************************)
(* release_funds                                                           *)
(***************************************************************************)
\* the platform fee is sent only when there is a fee and a fee address
FeeSendDue == FeeAmount > 0 /\ fee_addr

\* variant: a failed fee send fails the release
CryptoReleaseResult_FeeFatal(feeRes, sellerRes) == sellerRes /\ feeRes # "fail"

\* result of release_funds on the crypto path, from the two send results
CryptoReleaseResult(feeRes, sellerRes) == sellerRes

\* select the escrow; crypto: the platform-fee send
release_begin_crypto(r) ==
    /\ req[r].pc = "rel" /\ payment_method = "crypto"
    /\ IF ~(seller_details \/ req[r].action = "override")
       THEN /\ Set(r, [req[r] EXCEPT !.pc = "fin", !.ok = FALSE])
            /\ UNCHANGED outgoing
       ELSE IF FeeSendDue
       THEN \E res \in BOOLEAN :
              /\ send_crypto_transaction_kms(FeeAmount, res)
              /\ Set(r, [req[r] EXCEPT !.pc = "seller",
                           !.feeRes = IF res THEN "ok" ELSE "fail"])
       ELSE /\ Set(r, [req[r] EXCEPT !.pc = "seller"])
            /\ UNCHANGED outgoing
    /\ UNCHANGED <<escrowVars, tx, incoming, hold, fee_addr, auxVars, relCalls, sellerPaid>>

\* crypto: the net-amount send to the seller and the two ledger rows
release_seller(r) ==
    /\ req[r].pc = "seller"
    /\ \E res \in BOOLEAN :
         LET success == CryptoReleaseResult(req[r].feeRes, res)
         IN /\ send_crypto_transaction_kms(NetAmount, res)
            /\ Set(r, [req[r] EXCEPT !.pc = "fin", !.ok = success,
                         !.sellerRes = IF res THEN "ok" ELSE "fail"])
            /\ sellerPaid' = IF res THEN sellerPaid + 1 ELSE sellerPaid
            /\ tx' = IF res
                     THEN [tx EXCEPT !["release"] = @ + 1,
                                     !["platform_fee"] = @ + 1]
                     ELSE tx
    /\ UNCHANGED <<escrowVars, incoming, hold, fee_addr, auxVars, relCalls>>

\* variant: the payout is attempted whatever the capture returned
AfterCapture_AlwaysPayout(res) == "payout"

\* release_paypal_funds_to_seller: a capture that is not 201 returns failure
\* at once, otherwise the payout follows
AfterCapture(res) == IF res THEN "payout" ELSE "fin"

\* select the escrow; paypal: capture of the authorization
release_begin_paypal(r) ==
    /\ req[r].pc = "rel" /\ payment_method = "paypal"
    /\ IF ~paypal_authorization_id \/ ~seller_details
       THEN /\ Set(r, [req[r] EXCEPT !.pc = "fin", !.ok = FALSE])
            /\ UNCHANGED hold
       ELSE \E res \in BOOLEAN :
              /\ paypal_capture(res)
              /\ Set(r, [req[r] EXCEPT !.pc = AfterCapture(res),
                                       !.ok = FALSE,
                                       !.feeRes = IF res THEN "ok" ELSE "fail"])
    /\ UNCHANGED <<escrowVars, tx, incoming, outgoing, fee_addr, auxVars, relCalls, sellerPaid>>

\* paypal: payout to the seller and the release ledger row
release_payout(r) ==
    /\ req[r].pc = "payout"
    /\ \E res \in BOOLEAN :
         /\ Set(r, [req[r] EXCEPT !.pc = "fin", !.ok = res,
                                  !.sellerRes = IF res THEN "ok" ELSE "fail"])
         /\ sellerPaid' = IF res THEN sellerPaid + 1 ELSE sellerPaid
         /\ tx' = IF res THEN [tx EXCEPT !["release"] = @ + 1] ELSE tx
    /\ UNCHANGED <<escrowVars, railVars, fee_addr, auxVars, relCalls>>

release_funds(r) ==
    \/ release_begin_crypto(r)
    \/ release_seller(r)
    \/ release_begin_paypal(r)
    \/ release_payout(r)

(***************************************************************************)
(* process_paypal_cancel: void the stored authorization; on success the    *)
(* escrow is written refunded                                              *)
(***************************************************************************)
process_paypal_cancel ==
    /\ paypal_authorization_id
    /\ \E res \in BOOLEAN :
         /\ void_paypal_authorization(res)
         /\ status' = IF res THEN "refunded" ELSE status
    /\ UNCHANGED <<buyer_action, seller_action, payment_method, seller_details,
                   paypal_authorization_id, tx, incoming, outgoing, fee_addr, auxVars,
                   req, relCalls, sellerPaid>>

(***************************************************************************)
(* paypal_webhook                                                          *)
(***************************************************************************)
\* CHECKOUT.ORDER.APPROVED / PAYMENT.AUTHORIZATION.CREATED: select the escrow
\* of the order and test status == 'pending'
webhook_read(r) ==
    /\ CanStart(r)
    /\ payment_method = "paypal"
    /\ hold # "none"
    /\ status = "pending"
    /\ Set(r, [IdleReq EXCEPT !.kind = "webhook", !.pc = "wh", !.rstatus = status])
    /\ UNCHANGED <<escrowVars, tx, railVars, fee_addr, auxVars, relCalls, sellerPaid>>

\* update({'status':'funded','paypal_authorization_id': auth_id}).eq('id', ..)
\* and the deposit row
webhook_write(r) ==
    /\ req[r].kind = "webhook" /\ req[r].pc = "wh"
    /\ status' = "funded"
    /\ paypal_authorization_id' = TRUE
    /\ tx' = [tx EXCEPT !["deposit"] = @ + 1]
    /\ Set(r, IdleReq)
    /\ UNCHANGED <<buyer_action, seller_action, payment_method, seller_details,
                   railVars, fee_addr, auxVars, relCalls, sellerPaid>>

\* PAYMENT.CAPTURE.COMPLETED: a 'release' row carrying the capture id
webhook_capture_completed ==
    /\ payment_method = "paypal"
    /\ hold = "captured"
    /\ tx["release"] < MaxTx
    /\ tx' = [tx EXCEPT !["release"] = @ + 1]
    /\ UNCHANGED <<escrowVars, railVars, fee_addr, auxVars, req, relCalls, sellerPaid>>

Next ==
    \/ Deposit
    \/ BuyerApproves
    \/ SetSellerDetails
    \/ check_payment_status
    \/ handle_paypal_authorization
    \/ webhook_capture_completed
    \/ process_paypal_cancel
    \/ \E r \in Slots :
         \/ \E u \in Parties, a \in Actions : confirm_read(r, u, a)
         \/ confirm_update(r)
         \/ confirm_conflict(r)
         \/ confirm_flip(r)
         \/ confirm_finish(r)
         \/ confirm_cancel(r)
         \/ release_funds(r)
         \/ webhook_read(r)
         \/ webhook_write(r)

Spec == Init /\ [][Next]_vars

(***************************************************************************)
(* The same handlers, one request at a time: nothing else runs between a   *)
(* handler's first and last step                                           *)
(***************************************************************************)
AllIdle == \A r \in Slots : req[r].pc = "idle"

Sequential ==
    \/ AllIdle
    \/ /\ req' # req
       /\ \A r \in Slots : req[r].pc = "idle" => req'[r].pc = "idle"

NextSeq ==
    \/ Deposit /\ Sequential
    \/ BuyerApproves /\ Sequential
    \/ SetSellerDetails /\ Sequential
    \/ check_payment_status /\ Sequential
    \/ handle_paypal_authorization /\ Sequential
    \/ webhook_capture_completed /\ Sequential
    \/ process_paypal_cancel /\ Sequential
    \/ \E r \in Slots :
         \/ \E u \in Parties, a \in Actions : confirm_read(r, u, a) /\ Sequential
         \/ confirm_update(r)
         \/ confirm_flip(r)
         \/ confirm_finish(r)
         \/ confirm_cancel(r)
         \/ release_funds(r)
         \/ webhook_read(r) /\ Sequential
         \/ webhook_write(r)

SpecSeq == Init /\ [][NextSeq]_vars

(***************************************************************************)
(* A funded escrow with the seller's payout details set, and only          *)
(* confirm_escrow(release) requests of the two parties                     *)
(***************************************************************************)
InitFunded ==
    /\ status = "funded"
    /\ buyer_action = "none"
    /\ seller_action = "none"
    /\ payment_method \in {"crypto", "paypal"}
    /\ seller_details = TRUE
    /\ paypal_authorization_id = (payment_method = "paypal")
    /\ tx = [t \in TxTypes |-> IF t = "deposit" THEN 1 ELSE 0]
    /\ incoming \in IF payment_method = "crypto" THEN {Amount, MaxIncoming} ELSE {0}
    /\ outgoing = 0
    /\ hold = IF payment_method = "paypal" THEN "open" ELSE "none"
    /\ fee_addr \in BOOLEAN
    /\ req = [r \in Slots |-> IdleReq]
    /\ relCalls = 0
    /\ sellerPaid = 0
    /\ AuxInit

NextRelease ==
    \E r \in Slots :
      \/ \E u \in Parties : confirm_read(r, u, "release")
      \/ confirm_update(r)
      \/ confirm_conflict(r)
      \/ confirm_flip(r)
      \/ confirm_finish(r)
      \/ release_funds(r)

SpecRelease == InitFunded /\ [][NextRelease]_vars

(***************************************************************************)
(* process_refund                                                          *)
(***************************************************************************)
\* variant: the escrow's seller may ask for the refund too
RefundAllowed_AnyParty(u, st) == st = "cancelled"

\* the caller is the buyer and the escrow read is cancelled
RefundAllowed(u, st) == u = "buyer" /\ st = "cancelled"

\* select the escrow; 403 / 400 unless RefundAllowed; crypto only; the refund
\* address must be present and valid
refund_read(r, u, valid) ==
    /\ CanStart(r)
    /\ RefundAllowed(u, status)
    /\ payment_method = "crypto"
    /\ valid
    /\ Set(r, [IdleReq EXCEPT !.kind = "refund", !.pc = "rsend", !.user = u,
                              !.rstatus = status])
    /\ UNCHANGED <<escrowVars, tx, railVars, fee_addr, auxVars, relCalls, sellerPaid>>

\* variant: the refund returns what the seller would have received
RefundAmount_Net == NetAmount

\* data['amount']
RefundAmount == Amount

\* send_crypto_transaction_kms(escrow_id, buyer_refund_address, data['amount'])
refund_send(r) ==
    /\ req[r].kind = "refund" /\ req[r].pc = "rsend"
    /\ \E res \in BOOLEAN :
         /\ send_crypto_transaction_kms(RefundAmount, res)
         /\ buyerRefunded' = IF res THEN buyerRefunded + 1 ELSE buyerRefunded
         /\ IF res THEN Set(r, [req[r] EXCEPT !.pc = "rrow", !.ok = TRUE])
                   ELSE Set(r, IdleReq)
    /\ UNCHANGED <<escrowVars, tx, incoming, hold, fee_addr, nonRefundVars, relCalls,
                   sellerPaid>>

\* the 'refund' TransactionRecord
refund_row(r) ==
    /\ req[r].kind = "refund" /\ req[r].pc = "rrow"
    /\ tx["refund"] < MaxTx
    /\ tx' = [tx EXCEPT !["refund"] = @ + 1]
    /\ Set(r, [req[r] EXCEPT !.pc = "rstatus"])
    /\ UNCHANGED <<escrowVars, railVars, fee_addr, auxVars, relCalls, sellerPaid>>

\* update({'status': 'refunded', ...}).eq('id', escrow_id)
refund_status(r) ==
    /\ req[r].kind = "refund" /\ req[r].pc = "rstatus"
    /\ status' = "refunded"
    /\ Set(r, IdleReq)
    /\ UNCHANGED <<buyer_action, seller_action, payment_method, seller_details,
                   paypal_authorization_id, tx, railVars, fee_addr, auxVars, relCalls,
                   sellerPaid>>

process_refund(r) ==
    \/ \E u \in Parties, valid \in BOOLEAN : refund_read(r, u, valid)
    \/ refund_send(r)
    \/ refund_row(r)
    \/ refund_status(r)

(***************************************************************************)
(* admin_escrow_action, action 'cancel'                                    *)
(***************************************************************************)
\* select the escrow; 400 when it is completed, cancelled or refunded.
\* to_address: the request carries a refund address (escrows has no
\* buyer_address of its own)
admin_cancel_read(r, to_address) ==
    /\ CanStart(r)
    /\ status \notin {"completed", "cancelled", "refunded"}
    /\ Set(r, [IdleReq EXCEPT !.kind = "admin", !.user = "admin",
                              !.action = "cancel", !.rstatus = status,
                              !.pc = IF payment_method = "crypto" /\ to_address
                                     THEN "asend" ELSE "awrite"])
    /\ UNCHANGED <<escrowVars, tx, railVars, fee_addr, auxVars, relCalls, sellerPaid>>

\* crypto with a refund address: send net_amount back, any outcome
admin_cancel_send(r) ==
    /\ req[r].kind = "admin" /\ req[r].pc = "asend"
    /\ \E res \in BOOLEAN :
         /\ send_crypto_transaction_kms(NetAmount, res)
         /\ buyerRefunded' = IF res THEN buyerRefunded + 1 ELSE buyerRefunded
         /\ Set(r, [req[r] EXCEPT !.pc = "awrite", !.ok = res])
    /\ UNCHANGED <<escrowVars, tx, incoming, hold, fee_addr, nonRefundVars, relCalls,
                   sellerPaid>>

\* update(update_data).eq('id', escrow_id) with status cancelled
admin_cancel_write(r) ==
    /\ req[r].kind = "admin" /\ req[r].pc = "awrite"
    /\ status' = "cancelled"
    /\ Set(r, IdleReq)
    /\ UNCHANGED <<buyer_action, seller_action, payment_method, seller_details,
                   paypal_authorization_id, tx, railVars, fee_addr, auxVars, relCalls,
                   sellerPaid>>

admin_cancel(r) ==
    \/ \E to_address \in BOOLEAN : admin_cancel_read(r, to_address)
    \/ admin_cancel_send(r)
    \/ admin_cancel_write(r)

(***************************************************************************)
(* admin_escrow_action, action 'force_release'                             *)
(***************************************************************************)
\* variant: force_release is refused on the statuses cancel is refused on
ForceReleaseAllowed_AsCancel(st) == st \notin {"completed", "cancelled", "refunded"}

\* 400 unless the escrow read is funded
ForceReleaseAllowed(st) == st = "funded"

\* select the escrow, validate, enter release_funds; to_address: the request
\* carries an override address for the seller
admin_force_read(r, to_address) ==
    /\ CanStart(r)
    /\ ForceReleaseAllowed(status)
    /\ relCalls < MaxRelCalls
    /\ relCalls' = relCalls + 1
    /\ Set(r, [IdleReq EXCEPT !.kind = "force", !.user = "admin",
                              !.action = IF to_address THEN "override"
                                         ELSE "force_release",
                              !.rstatus = status, !.pc = "rel", !.called = TRUE])
    /\ UNCHANGED <<escrowVars, tx, railVars, fee_addr, auxVars, sellerPaid>>

\* update(update_data).eq('id', escrow_id) with the status the release gave
admin_force_write(r) ==
    /\ req[r].kind = "force" /\ req[r].pc = "fin"
    /\ status' = StatusAfterRelease(req[r].ok)
    /\ Set(r, IdleReq)
    /\ UNCHANGED <<buyer_action, seller_action, payment_method, seller_details,
                   paypal_authorization_id, tx, railVars, fee_addr, auxVars, relCalls,
                   sellerPaid>>

admin_force_release(r) ==
    \/ \E to_address \in BOOLEAN : admin_force_read(r, to_address)
    \/ release_funds(r)
    \/ admin_force_write(r)

\* funding and the admin's two overrides, one request at a time
NextForce ==
    \/ Deposit /\ AllIdle
    \/ BuyerApproves /\ AllIdle
    \/ SetSellerDetails /\ AllIdle
    \/ check_payment_status /\ AllIdle
    \/ handle_paypal_authorization /\ AllIdle
    \/ \E r \in Slots : admin_cancel(r) /\ Sequential
    \/ \E r \in Slots : admin_force_release(r) /\ Sequential

SpecForce == Init /\ [][NextForce]_vars

\* party u has not submitted an action to the funded escrow yet
FirstSubmission(u) ==
    /\ status = "funded"
    /\ (IF u = "buyer" THEN buyer_action ELSE seller_action) = "none"
    /\ \A q \in Slots : ~(req[q].kind = "confirm" /\ req[q].user = u)

NoForceInFlight == \A q \in Slots : req[q].kind # "force"

\* a funded escrow: each party submits release once, the admin forces the
\* release, all concurrently
NextForceRace ==
    \E r \in Slots :
      \/ \E u \in Parties : confirm_read(r, u, "release") /\ FirstSubmission(u)
      \/ confirm_update(r)
      \/ confirm_conflict(r)
      \/ confirm_flip(r)
      \/ confirm_finish(r)
      \/ release_funds(r)
      \/ \E to_address \in BOOLEAN : admin_force_read(r, to_address) /\ NoForceInFlight
      \/ admin_force_write(r)

SpecForceRace == InitFunded /\ [][NextForceRace]_vars

\* the same without the admin
NextPartiesOnce ==
    \E r \in Slots :
      \/ \E u \in Parties : confirm_read(r, u, "release") /\ FirstSubmission(u)
      \/ confirm_update(r)
      \/ confirm_conflict(r)
      \/ confirm_flip(r)
      \/ confirm_finish(r)
      \/ release_funds(r)

SpecPartiesOnce == InitFunded /\ [][NextPartiesOnce]_vars

(***************************************************************************)
(* Cancellation and refund: funding, the parties' cancel requests, the     *)
(* admin cancel, the void endpoint and process_refund                      *)
(***************************************************************************)
NextCancel ==
    \/ Deposit
    \/ BuyerApproves
    \/ check_payment_status
    \/ handle_paypal_authorization
    \/ process_paypal_cancel
    \/ \E r \in Slots :
         \/ \E u \in Parties : confirm_read(r, u, "cancel")
         \/ confirm_update(r)
         \/ confirm_conflict(r)
         \/ confirm_cancel(r)
         \/ process_refund(r)
         \/ admin_cancel(r)

SpecCancel == Init /\ [][NextCancel]_vars

(***************************************************************************)
(* Settlement of a funded crypto or card escrow by every path: the         *)
(* parties' release and cancel requests, process_refund and the admin's    *)
(* cancel and force_release, concurrently                                  *)
(***************************************************************************)
\* the admin acts on the escrow with one request at a time
NoAdminInFlight == \A q \in Slots : req[q].kind \notin {"admin", "force"}

NextSettle ==
    \E r \in Slots :
      \/ \E u \in Parties, a \in Actions : confirm_read(r, u, a)
      \/ confirm_update(r)
      \/ confirm_conflict(r)
      \/ confirm_flip(r)
      \/ confirm_finish(r)
      \/ confirm_cancel(r)
      \/ release_funds(r)
      \/ process_refund(r)
      \/ \E to_address \in BOOLEAN : admin_cancel_read(r, to_address) /\ NoAdminInFlight
      \/ admin_cancel_send(r)
      \/ admin_cancel_write(r)
      \/ \E to_address \in BOOLEAN : admin_force_read(r, to_address) /\ NoAdminInFlight
      \/ admin_force_write(r)

SpecSettle == InitFunded /\ [][NextSettle]_vars

\* a cancelled or cancellable escrow: the admin's cancel, one at a time, and
\* the buyer's process_refund requests, concurrently
NextRefund ==
    \/ Deposit
    \/ check_payment_status
    \/ \E r \in Slots :
         \/ \E to_address \in BOOLEAN : admin_cancel_read(r, to_address) /\ NoAdminInFlight
         \/ admin_cancel_send(r)
         \/ admin_cancel_write(r)
         \/ process_refund(r)

SpecRefund == InitWallet /\ [][NextRefund]_vars

(***************************************************************************)
(* Wallet custody: generate_crypto_address and the module-level cache      *)
(***************************************************************************)
SetW(r, rec) == wreq' = [wreq EXCEPT ![r] = rec]

\* escrow_wallets(escrow_id) and referral_payouts(escrow_id) are unique in
\* the store: a row for an escrow that already has rows is rejected
UniqueViolation(rows) == rows > 0

\* the call returns address a (0: None)
Return(a) == returned' = IF a = 0 THEN returned ELSE returned \cup {a}

\* a call of generate_crypto_address(currency, escrow_id) begins
\* (create_escrow, cart_finalize, the admin escrow listing)
gen_start(r) ==
    /\ wreq[r].pc = "idle"
    /\ \A q \in Slots : q < r => wreq[q].pc # "idle"
    /\ SetW(r, [IdleW EXCEPT !.kind = "gen", !.pc = "lookup"])
    /\ UNCHANGED <<coreVars, refVars, extVars, sentFrom, walletCache, walletRows, generated, returned>>

\* with wallet_cache_lock: cache hit, else the store row, else go on to the
\* rail; the lock is released when the with-block ends, before the rail calls
gen_lookup(r) ==
    /\ wreq[r].pc = "lookup"
    /\ IF walletCache # 0
       THEN /\ Return(walletCache)
            /\ SetW(r, IdleW)
            /\ UNCHANGED walletCache
       ELSE IF walletRows # {}
       THEN \E a \in walletRows :
              /\ walletCache' = a
              /\ Return(a)
              /\ SetW(r, IdleW)
       ELSE /\ SetW(r, [wreq[r] EXCEPT !.pc = "rail"])
            /\ UNCHANGED <<walletCache, returned>>
    /\ UNCHANGED <<coreVars, refVars, extVars, sentFrom, walletRows, generated>>

\* Tatum: GET wallet, GET address; any failure returns None
gen_rail(r) ==
    /\ wreq[r].pc = "rail"
    /\ \E res \in BOOLEAN :
         IF res
         THEN /\ generated < MaxGen
              /\ generated' = generated + 1
              /\ SetW(r, [wreq[r] EXCEPT !.pc = "insert", !.w = generated + 1])
         ELSE /\ SetW(r, IdleW)
              /\ UNCHANGED generated
    /\ UNCHANGED <<coreVars, refVars, extVars, sentFrom, walletCache, walletRows, returned>>

\* insert(rec) into escrow_wallets; the exception of a rejected insert (a
\* second row for the escrow_id) is logged and swallowed
gen_insert(r) ==
    /\ wreq[r].pc = "insert"
    /\ walletRows' = IF UniqueViolation(Cardinality(walletRows))
                     THEN walletRows
                     ELSE walletRows \cup {wreq[r].w}
    /\ SetW(r, [wreq[r] EXCEPT !.pc = "cache"])
    /\ UNCHANGED <<coreVars, refVars, extVars, sentFrom, walletCache, generated, returned>>

\* with wallet_cache_lock: ESCROW_WALLET_IDS[escrow_id] = rec; return address
gen_cache(r) ==
    /\ wreq[r].pc = "cache"
    /\ walletCache' = wreq[r].w
    /\ Return(wreq[r].w)
    /\ SetW(r, IdleW)
    /\ UNCHANGED <<coreVars, refVars, extVars, sentFrom, walletRows, generated>>

generate_crypto_address(r) ==
    \/ gen_lookup(r)
    \/ gen_rail(r)
    \/ gen_insert(r)
    \/ gen_cache(r)

\* the server process starts again with an empty ESCROW_WALLET_IDS
ProcessRestart ==
    /\ \A r \in Slots : wreq[r].pc = "idle"       \* in-flight calls end with it
    /\ walletCache # 0
    /\ walletCache' = 0
    /\ UNCHANGED <<coreVars, refVars, extVars, sentFrom, walletRows, generated, returned, wreq>>

\* the wallet send_crypto_transaction_kms signs with: the cached one, else
\* the single store row (0: the send fails for lack of a wallet)
SendWallet ==
    IF walletCache # 0 THEN walletCache
    ELSE IF Cardinality(walletRows) = 1 THEN CHOOSE a \in walletRows : TRUE
    ELSE 0

\* send_crypto_transaction_kms, its wallet lookup: with wallet_cache_lock the
\* store row is read into the cache when the cache has no entry
send_load_wallet ==
    /\ SendWallet # 0
    /\ walletCache' = SendWallet
    /\ sentFrom' = sentFrom \cup {SendWallet}
    /\ UNCHANGED <<coreVars, refVars, extVars, walletRows, generated, returned, wreq>>

(***************************************************************************)
(* wallet_cache_lock: generate_crypto_address and                          *)
(* send_crypto_transaction_kms, one step per lock operation, store call    *)
(* and rail call; a thread at a rail pc is blocked in that call            *)
(***************************************************************************)
SetT(t, rec) == lthr' = [lthr EXCEPT ![t] = rec]

\* what the lock-level steps leave alone besides the wallet variables
nonWalletVars == <<coreVars, refVars, efee, cartVars, notifVars, createVars, checkVars,
                   pricingVars, refundVars>>

\* the pcs at which a thread waits for a CryptoRail response
RailPcs == {"wallet", "address", "priv", "send"}

\* the pc a thread has once `with wallet_cache_lock:` has let it in
AfterAcquire(pc) ==
    CASE pc = "acq1" -> "cache"
      [] pc = "acq2" -> "store"
      [] pc = "k_acq1" -> "k_currency"
      [] pc = "k_acq2" -> "k_wallet"

\* a call of generate_crypto_address or of send_crypto_transaction_kms begins
wallet_call(t, fn) ==
    /\ lthr[t].pc = "idle"
    /\ \A q \in Slots : q < t => lthr[q].pc # "idle"
    /\ SetT(t, [IdleT EXCEPT !.fn = fn,
                             !.pc = IF fn = "gen" THEN "acq1" ELSE "k_acq1"])
    /\ UNCHANGED <<nonWalletVars, walletVars, lockOwner>>

\* with wallet_cache_lock: the thread waits until the lock is free
lock_acquire(t) ==
    /\ lthr[t].pc \in {"acq1", "acq2", "k_acq1", "k_acq2"}
    /\ lockOwner = 0
    /\ lockOwner' = t
    /\ SetT(t, [lthr[t] EXCEPT !.pc = AfterAcquire(@)])
    /\ UNCHANGED <<nonWalletVars, walletVars>>

\* variant: the first with-block of generate_crypto_address spans the rail calls
LockAfterWith_Held(t) == t

\* the owner of the lock once thread t has left its with-block
LockAfterWith(t) == 0

\* generate_crypto_address, in the lock: if escrow_id in ESCROW_WALLET_IDS
gca_cache(t) ==
    /\ lthr[t].pc = "cache"
    /\ IF walletCache # 0
       THEN /\ Return(walletCache)
            /\ lockOwner' = 0
            /\ SetT(t, IdleT)
       ELSE /\ SetT(t, [lthr[t] EXCEPT !.pc = "select"])
            /\ UNCHANGED <<returned, lockOwner>>
    /\ UNCHANGED <<nonWalletVars, walletCache, walletRows, generated, wreq, sentFrom>>

\* generate_crypto_address, in the lock: select from escrow_wallets; raises:
\* the store call raises; ready: TATUM_API_KEY is set and the chain is known
gca_select(t) ==
    /\ lthr[t].pc = "select"
    /\ \E raises \in BOOLEAN, ready \in BOOLEAN :
         IF raises
         THEN /\ lockOwner' = 0
              /\ SetT(t, IdleT)
              /\ UNCHANGED <<walletCache, returned>>
         ELSE IF walletRows # {}
         THEN \E a \in walletRows :
                /\ walletCache' = a
                /\ Return(a)
                /\ lockOwner' = 0
                /\ SetT(t, IdleT)
         ELSE /\ lockOwner' = LockAfterWith(t)
              /\ SetT(t, IF ready THEN [lthr[t] EXCEPT !.pc = "wallet"] ELSE IdleT)
              /\ UNCHANGED <<walletCache, returned>>
    /\ UNCHANGED <<nonWalletVars, walletRows, generated, wreq, sentFrom>>

\* the response of GET /{chain}/wallet
gca_wallet(t) ==
    /\ lthr[t].pc = "wallet"
    /\ \E ok \in BOOLEAN :
         IF ok
         THEN /\ generated < MaxGen
              /\ generated' = generated + 1
              /\ SetT(t, [lthr[t] EXCEPT !.pc = "address", !.w = generated + 1])
         ELSE /\ SetT(t, IdleT)
              /\ UNCHANGED generated
    /\ UNCHANGED <<nonWalletVars, walletCache, walletRows, returned, wreq, sentFrom,
                   lockOwner>>

\* the response of GET /{chain}/address/{xpub}/0
gca_address(t) ==
    /\ lthr[t].pc = "address"
    /\ \E ok \in BOOLEAN :
         SetT(t, IF ok THEN [lthr[t] EXCEPT !.pc = "insert"] ELSE IdleT)
    /\ UNCHANGED <<nonWalletVars, walletVars, lockOwner>>

\* insert(rec) into escrow_wallets; an exception (the store is down, or a
\* second row for the escrow_id) is logged and swallowed
gca_insert(t) ==
    /\ lthr[t].pc = "insert"
    /\ \E raises \in BOOLEAN :
         walletRows' = IF raises \/ UniqueViolation(Cardinality(walletRows))
                       THEN walletRows
                       ELSE walletRows \cup {lthr[t].w}
    /\ SetT(t, [lthr[t] EXCEPT !.pc = "acq2"])
    /\ UNCHANGED <<nonWalletVars, walletCache, generated, returned, wreq, sentFrom,
                   lockOwner>>

\* in the lock: ESCROW_WALLET_IDS[escrow_id] = rec; then return address
gca_store(t) ==
    /\ lthr[t].pc = "store"
    /\ walletCache' = lthr[t].w
    /\ Return(lthr[t].w)
    /\ lockOwner' = 0
    /\ SetT(t, IdleT)
    /\ UNCHANGED <<nonWalletVars, walletRows, generated, wreq, sentFrom>>

\* send_crypto_transaction_kms, first with-block: the currency of the cached
\* wallet; then validate_address when there is one (valid: its result)
kms_currency(t) ==
    /\ lthr[t].pc = "k_currency"
    /\ lockOwner' = 0
    /\ \E valid \in BOOLEAN :
         SetT(t, IF walletCache = 0 \/ valid
                 THEN [lthr[t] EXCEPT !.pc = "k_acq2"] ELSE IdleT)
    /\ UNCHANGED <<nonWalletVars, walletVars>>

\* second with-block: the cached wallet, else the store row read into the
\* cache (raises: the select raises or finds no row); has_mnemonic: the
\* record carries its mnemonic
kms_wallet(t) ==
    /\ lthr[t].pc = "k_wallet"
    /\ lockOwner' = 0
    /\ \E raises \in BOOLEAN, has_mnemonic \in BOOLEAN :
         IF walletCache # 0
         THEN /\ SetT(t, IF has_mnemonic
                         THEN [lthr[t] EXCEPT !.pc = "priv", !.w = walletCache]
                         ELSE IdleT)
              /\ UNCHANGED walletCache
         ELSE IF raises \/ walletRows = {}
         THEN /\ SetT(t, IdleT)
              /\ UNCHANGED walletCache
         ELSE \E a \in walletRows :
                /\ walletCache' = a
                /\ SetT(t, IF has_mnemonic
                           THEN [lthr[t] EXCEPT !.pc = "priv", !.w = a]
                           ELSE IdleT)
    /\ UNCHANGED <<nonWalletVars, walletRows, generated, returned, wreq, sentFrom>>

\* the response of POST /{chain}/wallet/priv
kms_priv(t) ==
    /\ lthr[t].pc = "priv"
    /\ \E ok \in BOOLEAN :
         SetT(t, IF ok THEN [lthr[t] EXCEPT !.pc = "send"] ELSE IdleT)
    /\ UNCHANGED <<nonWalletVars, walletVars, lockOwner>>

\* the response of POST /{chain}/transaction
kms_send(t) ==
    /\ lthr[t].pc = "send"
    /\ \E ok \in BOOLEAN :
         sentFrom' = IF ok THEN sentFrom \cup {lthr[t].w} ELSE sentFrom
    /\ SetT(t, IdleT)
    /\ UNCHANGED <<nonWalletVars, walletCache, walletRows, generated, returned, wreq,
                   lockOwner>>

generate_crypto_address_locked(t) ==
    \/ gca_cache(t)
    \/ gca_select(t)
    \/ gca_wallet(t)
    \/ gca_address(t)
    \/ gca_insert(t)
    \/ gca_store(t)

send_crypto_transaction_kms_locked(t) ==
    \/ kms_currency(t)
    \/ kms_wallet(t)
    \/ kms_priv(t)
    \/ kms_send(t)

\* threads calling the two wallet functions for the escrow, concurrently
NextLock ==
    \E t \in Slots :
      \/ \E fn \in {"gen", "send"} : wallet_call(t, fn)
      \/ lock_acquire(t)
      \/ generate_crypto_address_locked(t)
      \/ send_crypto_transaction_kms_locked(t)

SpecLock == InitWallet /\ [][NextLock]_vars

(***************************************************************************)
(* admin_escrow_action, action 'regenerate_wallet'                         *)
(***************************************************************************)
\* delete().eq('escrow_id', escrow_id) on escrow_wallets, then the call of
\* generate_crypto_address
regen_delete(r) ==
    /\ wreq[r].pc = "idle"
    /\ \A q \in Slots : q < r => wreq[q].pc # "idle"
    /\ walletRows' = {}
    /\ SetW(r, [IdleW EXCEPT !.kind = "regen", !.pc = "lookup",
                             !.old = walletRows \cup ({walletCache} \ {0})])
    /\ UNCHANGED <<coreVars, refVars, extVars, sentFrom, walletCache, generated, returned>>

NextWallet ==
    \/ ProcessRestart
    \/ send_load_wallet
    \/ \E r \in Slots :
         \/ gen_start(r)
         \/ generate_crypto_address(r)

SpecWallet == InitWallet /\ [][NextWallet]_vars

WalletIdle == \A r \in Slots : wreq[r].pc = "idle"

\* the wallet calls and the admin's regenerate_wallet, one call at a time
NextRegen ==
    \/ ProcessRestart
    \/ send_load_wallet
    \/ \E r \in Slots :
         \/ gen_start(r) /\ WalletIdle
         \/ regen_delete(r) /\ WalletIdle
         \/ generate_crypto_address(r)

SpecRegen == InitWallet /\ [][NextRegen]_vars

(***************************************************************************)
(* Referral accrual: award_referral_payout                                 *)
(***************************************************************************)
SetA(r, rec) == areq' = [areq EXCEPT ![r] = rec]

\* select the escrow; payment_method is crypto or paypal
acc_start(r) ==
    /\ areq[r].pc = "idle"
    /\ \A q \in Slots : q < r => areq[q].pc # "idle"
    /\ payment_method \in {"crypto", "paypal"}
    /\ SetA(r, [pc |-> "exist"])
    /\ UNCHANGED <<coreVars, walletVars, extVars, has_referrer, payouts, commCredits,
                   balance, wdreq, withdrawals>>

\* select id from referral_payouts where escrow_id: already accrued -> True
acc_exist(r) ==
    /\ areq[r].pc = "exist"
    /\ SetA(r, [pc |-> IF payouts > 0 THEN "idle" ELSE "buyer"])
    /\ UNCHANGED <<coreVars, walletVars, extVars, has_referrer, payouts, commCredits,
                   balance, wdreq, withdrawals>>

\* select the buyer's profile; no referrer or no commission -> True
acc_buyer(r) ==
    /\ areq[r].pc = "buyer"
    /\ SetA(r, [pc |-> IF has_referrer /\ Commission > 0 THEN "payout" ELSE "idle"])
    /\ UNCHANGED <<coreVars, walletVars, extVars, has_referrer, payouts, commCredits,
                   balance, wdreq, withdrawals>>

\* variant: a rejected payout insert is swallowed and the credit still written
AfterPayoutInsert_Swallowed(accepted) == "credit"

\* an exception of the insert leaves the function through its except clause
AfterPayoutInsert(accepted) == IF accepted THEN "credit" ELSE "idle"

\* insert into referral_payouts
acc_payout(r) ==
    /\ areq[r].pc = "payout"
    /\ LET accepted == ~UniqueViolation(payouts)
       IN /\ payouts' = IF accepted THEN payouts + 1 ELSE payouts
          /\ SetA(r, [pc |-> AfterPayoutInsert(accepted)])
    /\ UNCHANGED <<coreVars, walletVars, extVars, has_referrer, commCredits, balance,
                   wdreq, withdrawals>>

\* insert the escrow_commission credit into referral_ledger; raises: the
\* store call raises and the function returns False through its except clause
acc_credit(r) ==
    /\ areq[r].pc = "credit"
    /\ \E raises \in BOOLEAN :
         /\ commCredits' = IF raises THEN commCredits ELSE commCredits + 1
         /\ balance' = IF raises THEN balance ELSE balance + Commission
    /\ SetA(r, IdleA)
    /\ UNCHANGED <<coreVars, walletVars, extVars, has_referrer, payouts, wdreq, withdrawals>>

award_referral_payout(r) ==
    \/ acc_start(r)
    \/ acc_exist(r)
    \/ acc_buyer(r)
    \/ acc_payout(r)
    \/ acc_credit(r)

(***************************************************************************)
(* referral_withdraw                                                       *)
(***************************************************************************)
SetWd(r, rec) == wdreq' = [wdreq EXCEPT ![r] = rec]

\* the validation without the check of line 3068
WithdrawAccepted_NoMaximum(amt, bal) ==
    /\ amt >= MIN_WITHDRAW_USD
    /\ amt <= bal

\* the amount is within the limits and covered by the balance read
WithdrawAccepted(amt, bal) ==
    /\ amt >= MIN_WITHDRAW_USD
    /\ amt <= MAX_WITHDRAW_USD
    /\ amt <= bal

\* validation, then select the user's ledger rows and compute the balance
wd_read(r, amt) ==
    /\ wdreq[r].pc = "idle"
    /\ \A q \in Slots : q < r => wdreq[q].pc # "idle"
    /\ withdrawals < MaxWithdrawals
    /\ WithdrawAccepted(amt, balance)
    /\ SetWd(r, [IdleWd EXCEPT !.pc = "row", !.amt = amt])
    /\ UNCHANGED <<coreVars, walletVars, extVars, has_referrer, payouts, commCredits,
                   balance, areq, withdrawals>>

\* insert the referral_withdrawals row with status processing
wd_row(r) ==
    /\ wdreq[r].pc = "row"
    /\ withdrawals' = withdrawals + 1
    /\ SetWd(r, [wdreq[r] EXCEPT !.pc = "debit", !.status = "processing"])
    /\ UNCHANGED <<coreVars, walletVars, extVars, has_referrer, payouts, commCredits,
                   balance, areq>>

\* insert the debit into referral_ledger
wd_debit(r) ==
    /\ wdreq[r].pc = "debit"
    /\ balance' = balance - wdreq[r].amt
    /\ SetWd(r, [wdreq[r] EXCEPT !.pc = "price", !.deb = @ + 1])
    /\ UNCHANGED <<coreVars, walletVars, extVars, has_referrer, payouts, commCredits,
                   areq, withdrawals>>

\* get_usd_price(currency): None or 0 starts the rollback
wd_price(r) ==
    /\ wdreq[r].pc = "price"
    /\ \E ok \in BOOLEAN :
         SetWd(r, [wdreq[r] EXCEPT !.pc = IF ok THEN "send" ELSE "rb_credit"])
    /\ UNCHANGED <<coreVars, walletVars, extVars, has_referrer, payouts, commCredits,
                   balance, areq, withdrawals>>

\* send_platform_crypto: no tx hash starts the rollback
wd_send(r) ==
    /\ wdreq[r].pc = "send"
    /\ \E ok \in BOOLEAN :
         SetWd(r, [wdreq[r] EXCEPT !.pc = IF ok THEN "paid" ELSE "rb_credit",
                                   !.tx = ok])
    /\ UNCHANGED <<coreVars, walletVars, extVars, has_referrer, payouts, commCredits,
                   balance, areq, withdrawals>>

\* the store calls below are inside the try block; raises: the call raises,
\* which enters the except clause of lines 3164-3177

\* rollback: insert the compensating credit
wd_rb_credit(r) ==
    /\ wdreq[r].pc = "rb_credit"
    /\ \E raises \in BOOLEAN :
         IF raises
         THEN /\ SetWd(r, [wdreq[r] EXCEPT !.pc = "h_credit"])
              /\ UNCHANGED balance
         ELSE /\ balance' = balance + wdreq[r].amt
              /\ SetWd(r, [wdreq[r] EXCEPT !.pc = "rb_status", !.comp = @ + 1])
    /\ UNCHANGED <<coreVars, walletVars, extVars, has_referrer, payouts, commCredits,
                   areq, withdrawals>>

\* rollback: update the withdrawal to failed, return 500
wd_rb_status(r) ==
    /\ wdreq[r].pc = "rb_status"
    /\ \E raises \in BOOLEAN :
         SetWd(r, IF raises THEN [wdreq[r] EXCEPT !.pc = "h_credit"]
                            ELSE [wdreq[r] EXCEPT !.pc = "idle", !.status = "failed"])
    /\ UNCHANGED <<coreVars, walletVars, extVars, has_referrer, payouts, commCredits,
                   balance, areq, withdrawals>>

\* update the withdrawal to paid, return 200
wd_paid(r) ==
    /\ wdreq[r].pc = "paid"
    /\ \E raises \in BOOLEAN :
         SetWd(r, IF raises THEN [wdreq[r] EXCEPT !.pc = "h_credit"]
                            ELSE [wdreq[r] EXCEPT !.pc = "idle", !.status = "paid"])
    /\ UNCHANGED <<coreVars, walletVars, extVars, has_referrer, payouts, commCredits,
                   balance, areq, withdrawals>>

\* except clause: insert a compensating credit
wd_h_credit(r) ==
    /\ wdreq[r].pc = "h_credit"
    /\ balance' = balance + wdreq[r].amt
    /\ SetWd(r, [wdreq[r] EXCEPT !.pc = "h_status", !.comp = @ + 1])
    /\ UNCHANGED <<coreVars, walletVars, extVars, has_referrer, payouts, commCredits,
                   areq, withdrawals>>

\* except clause: update the withdrawal to failed, re-raise (500)
wd_h_status(r) ==
    /\ wdreq[r].pc = "h_status"
    /\ SetWd(r, [wdreq[r] EXCEPT !.pc = "idle", !.status = "failed"])
    /\ UNCHANGED <<coreVars, walletVars, extVars, has_referrer, payouts, commCredits,
                   balance, areq, withdrawals>>

referral_withdraw(r) ==
    \/ \E amt \in WithdrawAmounts : wd_read(r, amt)
    \/ wd_row(r)
    \/ wd_debit(r)
    \/ wd_price(r)
    \/ wd_send(r)
    \/ wd_rb_credit(r)
    \/ wd_rb_status(r)
    \/ wd_paid(r)
    \/ wd_h_credit(r)
    \/ wd_h_status(r)

\* accruals and the referrer's withdrawals, concurrently
NextReferral ==
    \E r \in Slots :
      \/ award_referral_payout(r)
      \/ referral_withdraw(r)

SpecReferral == InitReferral /\ [][NextReferral]_vars

\* the referrer's ledger holds nothing yet, or earlier credits above the
\* withdrawal maximum
InitWithdraw ==
    /\ CoreInit /\ payment_method = "crypto" /\ fee_addr
    /\ WalletInit /\ FeeInit /\ OtherInit
    /\ has_referrer = TRUE
    /\ payouts = 0
    /\ commCredits = 0
    /\ balance \in {0, MAX_WITHDRAW_USD + 1}
    /\ areq = [r \in Slots |-> IdleA]
    /\ wdreq = [r \in Slots |-> IdleWd]
    /\ withdrawals = 0

SpecWithdraw == InitWithdraw /\ [][NextReferral]_vars

(***************************************************************************)
(* Fee fields of an escrow row: calculate_platform_fee, create_escrow,     *)
(* cart_finalize, create_paypal_order_for_escrow                           *)
(***************************************************************************)
\* round(n / d) to the nearest unit, ties to even (Python's round)
RoundHalfEven(n, d) ==
    LET q == n \div d
        m == n % d
    IN IF 2 * m > d \/ (2 * m = d /\ q % 2 = 1) THEN q + 1 ELSE q

\* the tier boundary taken exclusively: 50 USD still pays the small-amount rate
FeeRate_Exclusive(usd, pm) ==
    IF pm = "crypto" /\ usd > FEE_TIER_USD THEN FEE_BPS_LARGE ELSE FEE_BPS

\* fee_rate: crypto 0.02 below 50 USD and 0.015 from there, paypal 0.02
FeeRate(usd, pm) ==
    IF pm = "crypto" /\ usd >= FEE_TIER_USD THEN FEE_BPS_LARGE ELSE FEE_BPS

\* calculate_platform_fee(amount, currency, payment_method); price: the USD
\* price of a unit (0: unavailable); for paypal usd_amount is the amount
calculate_platform_fee(amt, price, pm) ==
    LET usd == IF pm = "crypto" THEN amt * price ELSE amt
        fee_rate == FeeRate(usd, pm)
        fee == RoundHalfEven(amt * fee_rate, BPS)
    IN [fee_rate |-> fee_rate, fee |-> fee, net |-> amt - fee, usd |-> usd]

\* create_escrow, the insert: the row carries the computed fee fields
create_escrow_insert(pm, amt, price) ==
    /\ efee.via = "none"
    /\ LET f == calculate_platform_fee(amt, price, pm)
       IN efee' = [via |-> "create_escrow", pm |-> pm, amount |-> amt,
                   has_fee |-> TRUE, rate |-> f.fee_rate, usd |-> f.usd,
                   fee |-> f.fee, net |-> f.net]
    /\ UNCHANGED <<coreVars, walletVars, refVars, otherVars>>

\* cart_finalize, the insert: one escrow row per cart item, with amount and
\* usd_amount only
cart_finalize_insert(pm, amt) ==
    /\ efee.via = "none"
    /\ efee' = [via |-> "cart_finalize", pm |-> pm, amount |-> amt,
                has_fee |-> FALSE, rate |-> 0, usd |-> 0, fee |-> 0, net |-> 0]
    /\ UNCHANGED <<coreVars, walletVars, refVars, otherVars>>

\* create_paypal_order_for_escrow: a paypal escrow without a (non-zero)
\* platform_fee_amount gets its fee fields computed and written
create_paypal_order_for_escrow ==
    /\ efee.via # "none"
    /\ efee.pm = "paypal"
    /\ ~efee.has_fee \/ efee.fee = 0
    /\ LET f == calculate_platform_fee(efee.amount, 0, "paypal")
       IN efee' = [efee EXCEPT !.has_fee = TRUE, !.rate = f.fee_rate,
                                !.usd = f.usd, !.fee = f.fee, !.net = f.net]
    /\ UNCHANGED <<coreVars, walletVars, refVars, otherVars>>

\* the row is read by release_funds (net_amount, platform_fee_amount): the
\* escrow is over and its slot is free for the next one
escrow_released ==
    /\ efee.via # "none"
    /\ efee' = NoEscrow
    /\ UNCHANGED <<coreVars, walletVars, refVars, otherVars>>

NextFees ==
    \/ \E pm \in {"crypto", "paypal"}, amt \in 1..MaxAmountUnits, price \in 0..MaxPrice :
         create_escrow_insert(pm, amt, price)
    \/ \E pm \in {"crypto", "paypal"}, amt \in 1..MaxAmountUnits :
         cart_finalize_insert(pm, amt)
    \/ create_paypal_order_for_escrow
    \/ escrow_released

SpecFees == InitWallet /\ [][NextFees]_vars

(***************************************************************************)
(* Cart: cart_checkout, cart_check_crypto_funding, cart_finalize           *)
(***************************************************************************)
\* the listings row of a listing id
Listing(l) == [seller_id |-> l, price_usd |-> l]

\* the group key of a cart item: method, and the selected currency or USD
\* for paypal
GroupCurrency(it) ==
    IF it.selected_currency = "" /\ it.payment_method = "paypal"
    THEN "USD" ELSE it.selected_currency

\* the price of a cart line without its quantity
LinePrice_Unit(it) == Listing(it.listing_id).price_usd

\* price_usd of a cart line: listing price times quantity
LinePrice(it) == Listing(it.listing_id).price_usd * it.quantity

GroupIndex(groups, pm, cc) ==
    LET hits == {k \in 1..Len(groups) :
                   groups[k].payment_method = pm /\ groups[k].currency = cc}
    IN IF hits = {} THEN 0 ELSE CHOOSE k \in hits : TRUE

\* one pass of the grouping loop
AddToGroup(groups, it) ==
    LET pm == it.payment_method
        cc == GroupCurrency(it)
        price_usd == LinePrice(it)
        line == [listing_id |-> it.listing_id,
                 seller_id |-> Listing(it.listing_id).seller_id,
                 quantity |-> it.quantity, price_usd |-> price_usd]
        k == GroupIndex(groups, pm, cc)
        g0 == IF k = 0
              THEN Append(groups, [payment_method |-> pm, currency |-> cc,
                                   items |-> <<>>, total_usd |-> 0])
              ELSE groups
        j == IF k = 0 THEN Len(g0) ELSE k
    IN [g0 EXCEPT ![j].items = Append(@, line), ![j].total_usd = @ + price_usd]

RECURSIVE BuildGroups(_, _)
BuildGroups(items, groups) ==
    IF items = <<>> THEN groups
    ELSE BuildGroups(Tail(items), AddToGroup(groups, Head(items)))

\* _price_to_crypto_amount: round(total_usd / price, 8), 0 without a price
price_to_crypto_amount(total_usd, price) ==
    IF price <= 0 THEN 0 ELSE RoundHalfEven(total_usd * UnitsPerCoin, price)

\* the payment-context loop over groups k.. ; missing: currencies without a
\* platform address; order_ok: the card rail creates orders. Orders created
\* before a failure stay on the rail.
RECURSIVE PrepareContexts(_, _, _, _, _, _)
PrepareContexts(groups, k, ctx, missing, price, order_ok) ==
    IF k > Len(groups) THEN ctx
    ELSE LET g == groups[k] IN
         IF g.payment_method = "crypto"
         THEN IF g.currency \in missing
              THEN [ctx EXCEPT !.ok = FALSE]
              ELSE PrepareContexts(groups, k + 1,
                     [ctx EXCEPT !.aggs = Append(@,
                         [currency |-> g.currency, address |-> g.currency,
                          required |-> price_to_crypto_amount(g.total_usd, price),
                          balance |-> 0])],
                     missing, price, order_ok)
         ELSE IF ~order_ok
              THEN [ctx EXCEPT !.ok = FALSE]
              ELSE PrepareContexts(groups, k + 1,
                     [ctx EXCEPT !.created = Append(@, g.total_usd)],
                     missing, price, order_ok)

\* cart_checkout: group the cart, prepare one payment context per group and
\* insert the session
cart_checkout ==
    /\ session.status = "none"
    /\ cart # <<>>
    /\ \E missing \in SUBSET {"BTC", "ETH"}, price \in {0, CoinPrice}, order_ok \in BOOLEAN :
         LET groups == BuildGroups(cart, <<>>)
             ctx == PrepareContexts(groups, 1,
                        [ok |-> TRUE, aggs |-> <<>>, created |-> <<>>],
                        missing, price, order_ok)
         IN /\ Len(ppOrders) + Len(ctx.created) <= MaxOrders
            /\ ppOrders' = ppOrders \o ctx.created
            /\ session' = IF ctx.ok
                          THEN [status |-> "funding", groups |-> groups,
                                crypto_aggregators |-> ctx.aggs,
                                orders |-> [n \in 1..Len(ctx.created) |->
                                              Len(ppOrders) + n]]
                          ELSE session
    /\ UNCHANGED <<nonCartVars, cart, freq, sessionEscrows>>

\* cart_check_crypto_funding: read the rail balance of every aggregator and
\* store it; paid: the aggregators the buyer has paid in full
cart_check_crypto_funding ==
    /\ session.status # "none"
    /\ \E paid \in SUBSET (1..Len(session.crypto_aggregators)) :
         LET aggs == session.crypto_aggregators
             updated == [k \in 1..Len(aggs) |->
                           [aggs[k] EXCEPT !.balance =
                              IF k \in paid THEN aggs[k].required ELSE 0]]
             all_ok == \A k \in 1..Len(aggs) : updated[k].balance >= updated[k].required
         IN session' = [session EXCEPT !.crypto_aggregators = updated,
                          !.status = IF all_ok THEN "funded" ELSE "funding"]
    /\ UNCHANGED <<nonCartVars, cart, ppOrders, freq, sessionEscrows>>

SetF(r, f) == freq' = [freq EXCEPT ![r] = f]

\* the stored balances cover what every aggregator requires
CryptoFunded_Unchecked(aggs) == TRUE

CryptoFunded(aggs) ==
    \A k \in 1..Len(aggs) : aggs[k].balance >= aggs[k].required

\* the position after <<g, i>> in the nested loop over groups and items
NextItem(groups, g, i) ==
    IF g > Len(groups) THEN <<g, i>>
    ELSE IF i < Len(groups[g].items) THEN <<g, i + 1>>
    ELSE <<g + 1, 1>>

\* cart_finalize up to the fan-out: session lookup, authorization of every
\* card order (resolved: the client passed the order back and the rail gave
\* an authorization id), check of the stored aggregator balances
fin_read(r, u, resolved) ==
    /\ freq[r].pc = "idle"
    /\ session.status # "none"
    /\ IF u = "buyer" /\ (session.orders = <<>> \/ resolved)
          /\ CryptoFunded(session.crypto_aggregators)
       THEN SetF(r, [pc |-> "items", g |-> 1, i |-> 1,
                     auth_ids |-> {session.orders[n] : n \in 1..Len(session.orders)},
                     made |-> <<>>])
       ELSE SetF(r, IdleF)
    /\ UNCHANGED <<nonCartVars, cart, session, ppOrders, sessionEscrows>>

\* one pass of the fan-out: the escrow of one line item. A crypto item needs
\* its deposit address and the disbursement from the aggregator; when one of
\* them fails the call returns 500
fin_item(r, outcome) ==
    /\ freq[r].pc = "items"
    /\ freq[r].g <= Len(session.groups)
    /\ sessionEscrows < MaxSessionEscrows
    /\ sessionEscrows' = sessionEscrows + 1      \* the insert comes first
    /\ LET grp == session.groups[freq[r].g]
           it == grp.items[freq[r].i]
           nxt == NextItem(session.groups, freq[r].g, freq[r].i)
           row == [buyer_id |-> "buyer", seller_id |-> it.seller_id,
                   payment_method |-> grp.payment_method,
                   item |-> <<freq[r].g, freq[r].i>>]
       IN IF grp.payment_method = "crypto" /\ outcome # "ok"
          THEN SetF(r, IdleF)
          ELSE SetF(r, [freq[r] EXCEPT !.g = nxt[1], !.i = nxt[2],
                                       !.made = Append(@, row)])
    /\ UNCHANGED <<nonCartVars, cart, session, ppOrders>>

\* after the fan-out: clear the cart, close the session, return 200
fin_close(r) ==
    /\ freq[r].pc = "items"
    /\ freq[r].g > Len(session.groups)
    /\ cart' = <<>>
    /\ session' = [session EXCEPT !.status = "completed"]
    /\ SetF(r, IdleF)
    /\ UNCHANGED <<nonCartVars, ppOrders, sessionEscrows>>

cart_finalize(r) ==
    \/ \E outcome \in {"ok", "no_address", "no_disbursement"} : fin_item(r, outcome)
    \/ fin_close(r)

FinalizeIdle == \A r \in Slots : freq[r].pc = "idle"

\* the cart handlers, one cart_finalize call at a time
NextCart ==
    \/ cart_checkout
    \/ cart_check_crypto_funding /\ FinalizeIdle
    \/ \E r \in Slots, u \in {"buyer", "other"}, resolved \in BOOLEAN :
         fin_read(r, u, resolved) /\ FinalizeIdle
    \/ \E r \in Slots : cart_finalize(r)

SpecCart == InitCart /\ [][NextCart]_vars

(***************************************************************************)
(* Outbound notifier: trigger_delivery_callback                            *)
(***************************************************************************)
\* entry: escrow and listing lookups and the URL check. url: the listing's
\* fulfillment_url is missing, fails _assert_safe_url, or is usable
notify_start(url) ==
    /\ nreq.pc = "idle"
    /\ ncalls < MaxNotifyCalls
    /\ ncalls' = ncalls + 1
    /\ IF fulfillment_status = "success" \/ url = "none"
       THEN UNCHANGED <<fulfillment_status, fulfillment_attempts, nreq>>
       ELSE IF url = "unsafe"
       THEN /\ fulfillment_status' = "failed"
            /\ fulfillment_attempts' = fulfillment_attempts + 1
            /\ UNCHANGED nreq
       ELSE /\ nreq' = [IdleN EXCEPT !.pc = "post"]
            /\ UNCHANGED <<fulfillment_status, fulfillment_attempts>>
    /\ UNCHANGED nonNotifVars

\* where the loop goes after an attempt that did not end the call
AfterFailedAttempt(attempts) ==
    IF attempts < OUTBOUND_CALLBACK_RETRY_MAX THEN "post" ELSE "failed"

\* one delivery attempt: the POST and what it gave
notify_post(resp) ==
    /\ nreq.pc = "post"
    /\ LET attempts == nreq.attempts + 1
       IN nreq' = [nreq EXCEPT !.attempts = attempts, !.last = resp,
                     !.got2xx = @ \/ resp = "2xx",
                     !.pc = IF resp = "2xx" THEN "record"
                            ELSE AfterFailedAttempt(attempts)]
    /\ UNCHANGED <<nonNotifVars, fulfillment_status, fulfillment_attempts, ncalls>>

\* the update that records success, inside the attempt's try block: when
\* the store call raises, the except clause takes it for a failed attempt
notify_record(raises) ==
    /\ nreq.pc = "record"
    /\ IF raises
       THEN /\ nreq' = [nreq EXCEPT !.last = "exception",
                          !.pc = AfterFailedAttempt(nreq.attempts)]
            /\ UNCHANGED <<fulfillment_status, fulfillment_attempts>>
       ELSE /\ fulfillment_status' = "success"
            /\ fulfillment_attempts' = fulfillment_attempts + nreq.attempts
            /\ nreq' = IdleN
    /\ UNCHANGED <<nonNotifVars, ncalls>>

\* after the loop: record the failure
notify_failed ==
    /\ nreq.pc = "failed"
    /\ fulfillment_status' = "failed"
    /\ fulfillment_attempts' = fulfillment_attempts + nreq.attempts
    /\ nreq' = IdleN
    /\ UNCHANGED <<nonNotifVars, ncalls>>

trigger_delivery_callback ==
    \/ \E url \in {"none", "unsafe", "ok"} : notify_start(url)
    \/ \E resp \in {"2xx", "non2xx", "timeout", "exception"} : notify_post(resp)
    \/ \E raises \in BOOLEAN : notify_record(raises)
    \/ notify_failed

NextNotify == trigger_delivery_callback

SpecNotify == InitWallet /\ [][NextNotify]_vars

(***************************************************************************)
(* The escrow's handlers, one request at a time, where a request that can  *)
(* take a step eventually does                                             *)
(***************************************************************************)
SpecSeqLive == Init /\ [][NextSeq]_vars /\ WF_vars(NextSeq)

(***************************************************************************)
(* create_escrow                                                           *)
(***************************************************************************)
\* what a create_escrow request carries, as far as the checks see it
CreateRequests ==
    [authenticated : BOOLEAN, amount_ok : BOOLEAN, currency_ok : BOOLEAN,
     payment_method : {"crypto", "paypal", "other"},
     initiator_role : {"buyer", "seller"},
     counterparty : {"found", "missing", "self"}]

\* the checks before the insert, in their order; 0: all passed
ValidationCode(q) ==
    IF ~q.authenticated THEN 401
    ELSE IF ~q.amount_ok \/ ~q.currency_ok THEN 400
    ELSE IF q.payment_method \notin {"crypto", "paypal"} THEN 400
    ELSE IF q.counterparty = "missing" THEN 404
    ELSE IF q.counterparty = "self" THEN 400
    ELSE 0

\* checks and the insert of the pending row; insert_ok: the store call did
\* not raise
ce_start(q, insert_ok) ==
    /\ creq.pc = "idle"
    /\ Len(escrows) < MaxEscrows
    /\ IF ValidationCode(q) # 0
       THEN /\ creply' = ValidationCode(q)
            /\ creq' = IdleC
            /\ UNCHANGED escrows
       ELSE IF ~insert_ok
       THEN /\ creply' = 500
            /\ creq' = IdleC
            /\ UNCHANGED escrows
       ELSE /\ escrows' = Append(escrows,
                            [buyer_id |-> IF q.initiator_role = "buyer"
                                          THEN "user" ELSE "counterparty",
                             payment_method |-> q.payment_method,
                             status |-> "pending", deposit_address |-> FALSE,
                             paypal_order_id |-> FALSE])
            /\ creq' = [pc |-> "target", pm |-> q.payment_method,
                        n0 |-> Len(escrows), rolled |-> FALSE]
            /\ creply' = 0
    /\ UNCHANGED nonCreateVars

\* after the funding target was asked for
AfterTarget(res) == IF res THEN "update" ELSE "rollback"

\* generate_crypto_address / create_paypal_order_authorize; res: an address
\* or an order came back
ce_target(res) ==
    /\ creq.pc = "target"
    /\ creq' = [creq EXCEPT !.pc = AfterTarget(res)]
    /\ UNCHANGED <<nonCreateVars, escrows, creply>>

\* update({'deposit_address': ..}) / update({'paypal_order_id': ..}); 201
ce_update ==
    /\ creq.pc = "update"
    /\ escrows' = [escrows EXCEPT ![Len(escrows)] =
                     IF creq.pm = "crypto" THEN [@ EXCEPT !.deposit_address = TRUE]
                                           ELSE [@ EXCEPT !.paypal_order_id = TRUE]]
    /\ creply' = 201
    /\ creq' = IdleC
    /\ UNCHANGED nonCreateVars

\* variant: the row stays when the funding target could not be created
Rollback_Keep(rows) == rows

\* delete().eq('id', escrow_id): the row just inserted
Rollback(rows) == SubSeq(rows, 1, Len(rows) - 1)

\* rollback of the insert; 500
ce_rollback ==
    /\ creq.pc = "rollback"
    /\ escrows' = Rollback(escrows)
    /\ creply' = 500
    /\ creq' = [IdleC EXCEPT !.rolled = TRUE]
    /\ UNCHANGED nonCreateVars

create_escrow ==
    \/ \E q \in CreateRequests, insert_ok \in BOOLEAN : ce_start(q, insert_ok)
    \/ \E res \in BOOLEAN : ce_target(res)
    \/ ce_update
    \/ ce_rollback

NextCreate == create_escrow

SpecCreate == InitWallet /\ [][NextCreate]_vars

(***************************************************************************)
(* check_payment_status with its responses                                 *)
(***************************************************************************)
\* the buyer pays part of the amount
DepositPart ==
    /\ payment_method = "crypto"
    /\ incoming + 1 <= MaxIncoming
    /\ incoming' = incoming + 1
    /\ UNCHANGED <<escrowVars, tx, outgoing, hold, fee_addr, auxVars, req, relCalls, sellerPaid>>

\* the whole handler, called by user u; read_ok: the balance read succeeded
check_payment(u, read_ok) ==
    /\ cpReply = NoReply
    /\ AllIdle
    /\ IF u # "buyer"
       THEN /\ cpReply' = [status |-> "403", read |-> "none"]
            /\ UNCHANGED <<status, tx>>
       ELSE IF ~(payment_method = "crypto" /\ deposit_address)
       THEN /\ cpReply' = [status |-> "400", read |-> "none"]
            /\ UNCHANGED <<status, tx>>
       ELSE IF check_crypto_payment(read_ok)
       THEN /\ cpReply' = [status |-> "funded", read |-> "ok"]
            /\ status' = IF status = "pending" THEN "funded" ELSE status
            /\ tx' = IF status = "pending"
                     THEN [tx EXCEPT !["deposit"] = @ + 1] ELSE tx
       ELSE /\ cpReply' = [status |-> "pending",
                           read |-> IF read_ok THEN "ok" ELSE "failed"]
            /\ UNCHANGED <<status, tx>>
    /\ UNCHANGED <<buyer_action, seller_action, payment_method, seller_details,
                   paypal_authorization_id, railVars, fee_addr, req, relCalls,
                   sellerPaid, walletVars, refVars, efee, cartVars, notifVars,
                   createVars, deposit_address, utilVars>>

\* the caller has the response
take_reply ==
    /\ cpReply # NoReply
    /\ cpReply' = NoReply
    /\ UNCHANGED <<coreVars, walletVars, refVars, efee, cartVars, notifVars,
                   createVars, deposit_address, utilVars>>

\* an escrow of either method, a crypto one with or without its address
InitCheck ==
    /\ CoreInit /\ fee_addr
    /\ WalletInit /\ ReferralInit /\ has_referrer /\ FeeInit
    /\ CartInit /\ NotifInit /\ CreateInit /\ UtilInit
    /\ deposit_address \in BOOLEAN
    /\ payment_method = "paypal" => ~deposit_address
    /\ cpReply = NoReply

\* payments, check-payment calls and the admin's cancel, one at a time
NextCheck ==
    \/ Deposit /\ AllIdle
    \/ DepositPart /\ AllIdle
    \/ \E u \in Parties, read_ok \in BOOLEAN : check_payment(u, read_ok)
    \/ take_reply
    \/ \E r \in Slots : admin_cancel(r) /\ Sequential

SpecCheck == InitCheck /\ [][NextCheck]_vars

(***************************************************************************)
(* Pricing rules: choose_tier and apply_pricing_rules.  USD amounts are in *)
(* mills (0.001 USD), percents in tenths of a percent, results in cents    *)
(***************************************************************************)
PaymentMethods == {"crypto", "paypal"}
Currencies == {"none", "BTC"}

\* base amounts: zero, below and at half a cent, a cent, one dollar, around
\* the 50 USD boundary
PriceBases == {0, 4, 5, 10, 15, 1000, 49990, 50000, 60000}

\* tiers: max_amount -1 is None
PriceTiers ==
    { [min_amount |-> 0, max_amount |-> 50000, percent |-> 30, fixed_usd |-> 0],
      [min_amount |-> 50000, max_amount |-> -1, percent |-> 10, fixed_usd |-> 500],
      [min_amount |-> 1000, max_amount |-> -1, percent |-> 50, fixed_usd |-> 0],
      [min_amount |-> 0, max_amount |-> -1, percent |-> -2000, fixed_usd |-> 0] }

TierLists == UNION { [1..n -> PriceTiers] : n \in 0..MaxTiers }

MethodDefs ==
    { [present |-> TRUE, tiers |-> ts, percent |-> p, fixed_usd |-> 0] :
        ts \in TierLists, p \in {0, 25} }

CurrencyRules ==
    { NoCurrencyRule, [present |-> TRUE, percent |-> 5, fixed_usd |-> 100] }

\* rule sets with an entry for one payment method and for the currency BTC
RuleSets ==
    {NoRules} \cup
    { [present |-> TRUE,
       methods |-> [m \in PaymentMethods |-> IF m = k THEN d ELSE NoMethod],
       currencies |-> [c \in Currencies |-> IF c = "BTC" THEN cr ELSE NoCurrencyRule]] :
        k \in PaymentMethods, d \in MethodDefs \cup {NoMethod}, cr \in CurrencyRules }

\* base_amount >= min_a and (max_a is None or base_amount < max_a)
TierMatches(t, base) ==
    base >= t.min_amount /\ (t.max_amount = -1 \/ base < t.max_amount)

\* list.sort(key=min_amount): stable insertion of t into the sorted list
RECURSIVE InsertByMin(_, _)
InsertByMin(sorted, t) ==
    IF sorted = <<>> THEN <<t>>
    ELSE IF sorted[Len(sorted)].min_amount <= t.min_amount
    THEN Append(sorted, t)
    ELSE Append(InsertByMin(SubSeq(sorted, 1, Len(sorted) - 1), t),
                sorted[Len(sorted)])

RECURSIVE SortByMin(_)
SortByMin(ts) ==
    IF ts = <<>> THEN <<>>
    ELSE InsertByMin(SortByMin(SubSeq(ts, 1, Len(ts) - 1)), ts[Len(ts)])

\* the matching tier with the highest min_amount, <<>> for None
choose_tier(tiers, base_amount) ==
    LET valid == SelectSeq(tiers, LAMBDA t : TierMatches(t, base_amount))
        sorted == SortByMin(valid)
    IN IF valid = <<>> THEN <<>> ELSE <<sorted[Len(sorted)]>>

\* percent of the built-in fees used when the rules have no entry for the method
DefaultPercent(base, pm) ==
    IF pm = "paypal" THEN 20
    ELSE IF pm = "crypto" THEN (IF base < 50000 THEN 20 ELSE 15)
    ELSE 0

\* if not rules: return round(float(base_usd), 2)
NoRulesPrice(base) == RoundHalfEven(base, 10)

\* the price in cents
apply_pricing_rules(base, pm, cur, rules) ==
    IF ~rules.present THEN NoRulesPrice(base)
    ELSE
    LET mdef == rules.methods[pm]
        tier == IF mdef.present THEN choose_tier(mdef.tiers, base) ELSE <<>>
        m_percent == IF ~mdef.present THEN DefaultPercent(base, pm)
                     ELSE IF tier # <<>> THEN tier[1].percent ELSE mdef.percent
        m_fixed == IF ~mdef.present THEN 0
                   ELSE IF tier # <<>> THEN tier[1].fixed_usd ELSE mdef.fixed_usd
        cdef == IF cur = "none" THEN NoCurrencyRule ELSE rules.currencies[cur]
        total_percent == m_percent + (IF cdef.present THEN cdef.percent ELSE 0)
        total_fixed == m_fixed + (IF cdef.present THEN cdef.fixed_usd ELSE 0)
        \* in units of 1e-6 USD
        adjusted == base * (1000 + total_percent) + 1000 * total_fixed
        clamped == IF adjusted < 10000 THEN 10000 ELSE adjusted
    IN  \* round(adjusted + 1e-9, 2): an exact half cent goes up
        (clamped + 5000) \div 10000

\* a caller prices a base amount
price_call ==
    /\ priced = -1
    /\ priced' = apply_pricing_rules(priceArgs.base, priceArgs.payment_method,
                                     priceArgs.currency, priceArgs.rules)
    /\ UNCHANGED <<coreVars, walletVars, refVars, efee, cartVars, notifVars,
                   createVars, checkVars, lockVars, refundVars, priceArgs>>

\* the caller has the price
price_taken ==
    /\ priced # -1
    /\ priced' = -1
    /\ UNCHANGED <<coreVars, walletVars, refVars, efee, cartVars, notifVars,
                   createVars, checkVars, lockVars, refundVars, priceArgs>>

\* any base amount, payment method, currency and rule set
InitPricing ==
    /\ CoreInit /\ payment_method = "crypto" /\ fee_addr
    /\ WalletInit /\ ReferralInit /\ has_referrer /\ FeeInit
    /\ CartInit /\ NotifInit /\ CreateInit /\ CheckInit /\ LockInit /\ RefundInit
    /\ priceArgs \in [base : PriceBases, payment_method : PaymentMethods,
                      currency : Currencies, rules : RuleSets]
    /\ priced = -1

NextPricing == price_call \/ price_taken

SpecPricing == InitPricing /\ [][NextPricing]_vars

(***************************************************************************)
(* Properties                                                              *)
(***************************************************************************)
BothRelease == buyer_action = "release" /\ seller_action = "release"
BothCancel == buyer_action = "cancel" /\ seller_action = "cancel"

\* request r takes a step
Steps(r) == req'[r] # req[r]
\* request r takes its last step
Finishes(r) == req[r].pc # "idle" /\ req'[r].pc = "idle"

\* C1: once the concurrent confirm_escrow(release) requests of the buyer and
\* the seller of a funded escrow have all finished, release_funds has been
\* invoked exactly once for the escrow.
C1_ExactlyOneSettlement ==
    (AllIdle /\ BothRelease) => relCalls = 1

\* C2: whatever the parties submit and resubmit, the seller's net amount is
\* transferred at most once and at most one 'release' TransactionRecord exists.
C2_AtMostOneDisbursement ==
    sellerPaid <= 1 /\ tx["release"] <= 1

\* one step of C3_ReleaseIffBothRelease
C3_ReleaseIffBothRelease_Step ==
    \A r \in Slots :
      /\ (req[r].kind = "confirm" /\ Finishes(r)
          /\ (req[r].pc = "upd" => status = req[r].rstatus))
         => LET agreed == IF req[r].pc = "upd"
                          THEN buyer_action' = "release"
                               /\ seller_action' = "release"
                          ELSE req[r].agreed
            IN req[r].called <=> agreed
      /\ (req[r].kind = "confirm" /\ req[r].pc = "upd"
          /\ status = req[r].rstatus /\ Steps(r)
          /\ buyer_action' # seller_action')
         => (req'[r].pc = "idle" /\ status' = status
             /\ UNCHANGED railVars)

\* C3: a confirm_escrow request invokes release_funds if and only if both
\* actions are release once its own action is recorded; when the two actions
\* differ at that point the request ends there without touching the status
\* or a rail.
C3_ReleaseIffBothRelease ==
    [][C3_ReleaseIffBothRelease_Step]_vars

\* one step of C4_TerminalStatuses
C4_TerminalStatuses_Step ==
    status \in Terminal => status' = status

\* C4: completed, cancelled, refunded and dispute_resolved are terminal: no
\* step changes the status of an escrow that has one of them.
C4_TerminalStatuses ==
    [][C4_TerminalStatuses_Step]_vars

\* one step of C5_ProcessingOnlyFromFunded
C5_ProcessingOnlyFromFunded_Step ==
    /\ (status' = "processing" /\ status # "processing") => status = "funded"
    /\ \A r \in Slots :
         (req'[r].called /\ ~req[r].called /\ req[r].kind = "confirm")
         => req[r].rstatus = "funded"

\* C5: the status becomes processing only from funded, and confirm_escrow
\* enters release_funds only when the status it read was funded.
C5_ProcessingOnlyFromFunded ==
    [][C5_ProcessingOnlyFromFunded_Step]_vars

\* one step of C6_FundedOnce
C6_FundedOnce_Step ==
    /\ tx'["deposit"] <= 1
    /\ status # "pending"
       => /\ (status' = "funded" => status = "funded")
          /\ paypal_authorization_id' = paypal_authorization_id

\* C6: the escrow is marked funded at most once: at most one 'deposit'
\* TransactionRecord is written, and once the status has left pending no
\* detection sets it to funded or writes the authorization id.
C6_FundedOnce ==
    [][C6_FundedOnce_Step]_vars

\* one step of C7_CancelCancel
C7_CancelCancel_Step ==
    \A r \in Slots :
      /\ (req[r].kind = "confirm" /\ req[r].action = "cancel"
          /\ Finishes(r) /\ buyer_action' = "cancel"
          /\ seller_action' = "cancel")
         => status' = "cancelled"
      /\ (Steps(r) /\ "cancel" \in {req[r].action, req'[r].action})
         => (relCalls' = relCalls /\ sellerPaid' = sellerPaid
             /\ tx' = tx /\ UNCHANGED railVars)

\* C7: with the requests handled one after another, a cancel submitted by
\* one party when the other party's cancel is recorded ends with the escrow
\* cancelled, and no step of a cancel request enters release_funds, moves
\* value on a rail or writes a ledger row.
C7_CancelCancel ==
    [][C7_CancelCancel_Step]_vars

\* C7 witness: both cancels are recorded, the escrow is cancelled and
\* release_funds was never entered.
C7_Witness ==
    AllIdle /\ BothCancel /\ status = "cancelled" /\ relCalls = 0

\* one step of C8_WinnerSettlesStatus
C8_WinnerSettlesStatus_Step ==
    \A r \in Slots :
      (req[r].kind = "confirm" /\ req[r].called /\ Finishes(r))
      => /\ req[r].pc = "fin"
         /\ status' = (IF req[r].ok THEN "completed" ELSE "release_failed")
         /\ status' # "processing"

C9_NoRetryAfterReleaseFailed ==
    \A r \in Slots :
        (req[r].kind = "confirm" /\ req[r].rstatus = "release_failed")
        => ~req[r].called

\* C10: in a crypto release the platform-fee send (when a fee and a fee
\* address exist) has been attempted by the time the seller send is, and
\* release_funds returns success exactly when the seller send succeeded,
\* whatever the fee send did.
C10_FeeBestEffort ==
    \A r \in Slots :
        payment_method = "crypto" =>
          /\ (req[r].pc = "seller" /\ FeeSendDue) => req[r].feeRes # "none"
          /\ req[r].sellerRes # "none" => req[r].pc = "fin"
          /\ req[r].pc = "fin" => (req[r].ok <=> req[r].sellerRes = "ok")

\* C10 witness: the fee send failed, the seller send succeeded and
\* release_funds returned success.
C10_Witness ==
    \E r \in Slots :
        /\ payment_method = "crypto" /\ req[r].pc = "fin"
        /\ req[r].feeRes = "fail" /\ req[r].sellerRes = "ok" /\ req[r].ok

\* C11: in a crypto release whose fee send succeeded and whose seller send
\* then failed, exactly one platform_fee TransactionRecord exists for the
\* escrow and no release TransactionRecord does (the status then becomes
\* release_failed).
C11_FeeRowWithoutRelease ==
    \A r \in Slots :
        (payment_method = "crypto" /\ req[r].pc = "fin" /\ relCalls = 1
         /\ req[r].feeRes = "ok" /\ req[r].sellerRes = "fail")
        => (tx["platform_fee"] = 1 /\ tx["release"] = 0)

\* one step of C12_CaptureThenPayout
C12_CaptureThenPayout_Step ==
    \A r \in Slots :
      (payment_method = "paypal" /\ req[r].called) =>
        \* the payout is attempted only after a successful capture
        /\ (req'[r].sellerRes # "none" /\ req[r].sellerRes = "none")
           => (req[r].pc = "payout" /\ req[r].feeRes = "ok" /\ hold = "captured")
        \* release_funds returns success iff capture and payout succeeded
        /\ (req'[r].pc = "fin" /\ req[r].pc # "fin")
           => /\ req'[r].ok <=> (req'[r].feeRes = "ok" /\ req'[r].sellerRes = "ok")
              /\ ~req'[r].ok => tx'["release"] = tx["release"]
        /\ (req[r].pc = "rel" /\ Steps(r)) => tx' = tx
        \* a failed release ends in release_failed
        /\ (req[r].pc = "fin" /\ ~req[r].ok /\ Steps(r))
           => status' = "release_failed"

C13_CancelVoidsHold ==
    (AllIdle /\ payment_method = "paypal" /\ paypal_authorization_id
     /\ status = "cancelled")
    => hold = "voided"

\* one step of C14_ProcessRefund
C14_ProcessRefund_Step ==
    \A r \in Slots :
      \* accepted only from the buyer on a cancelled crypto escrow
      /\ (req'[r].kind = "refund" /\ req[r].kind # "refund")
         => (req'[r].user = "buyer" /\ status = "cancelled"
             /\ payment_method = "crypto" /\ UNCHANGED <<status, tx, railVars>>)
      \* the send is of the full amount; a failed send ends the request
      /\ (req[r].kind = "refund" /\ req[r].pc = "rsend" /\ Steps(r))
         => /\ outgoing' \in {outgoing, outgoing + Amount}
            /\ UNCHANGED <<status, tx>>
            /\ (outgoing' = outgoing) <=> (req'[r].pc = "idle")
      \* after a successful send: one refund row, then status refunded
      /\ (req[r].kind = "refund" /\ req[r].pc \in {"rrow", "rstatus"} /\ Steps(r))
         => /\ req[r].ok /\ UNCHANGED railVars
            /\ tx'["refund"] = tx["refund"] + (IF req[r].pc = "rrow" THEN 1 ELSE 0)
            /\ Finishes(r) <=> req[r].pc = "rstatus"
            /\ Finishes(r) => status' = "refunded"
            /\ ~Finishes(r) => status' = status

\* C14: process_refund goes ahead only for the buyer of a cancelled crypto
\* escrow; it sends exactly the full amount; after a successful send it
\* writes one 'refund' TransactionRecord and sets the status refunded; after
\* a failed send it writes nothing and leaves the status alone.
C14_ProcessRefund ==
    [][C14_ProcessRefund_Step]_vars

\* C14 witness: a cancelled funded escrow was refunded in full with one row.
C14_Witness ==
    /\ AllIdle /\ status = "refunded" /\ tx["refund"] = 1
    /\ incoming = Amount /\ outgoing = Amount

\* C15: for any interleaving of generate_crypto_address calls for one escrow
\* the rail generates a wallet at most once, at most one WalletRecord exists
\* and all calls that return an address return the same one.
C15_OneWalletPerEscrow ==
    /\ generated <= 1
    /\ Cardinality(walletRows) <= 1
    /\ Cardinality(returned) <= 1

\* one step of C16_RegenerateReplacesWallet
C16_RegenerateReplacesWallet_Step ==
    \A r \in Slots :
      (wreq[r].kind = "regen" /\ wreq'[r].pc = "idle"
       /\ wreq[r].pc \in {"lookup", "cache"})
      => /\ walletRows' = {walletCache'}
         /\ walletCache' \notin wreq[r].old
         /\ SendWallet' = walletCache'

\* C16: when regenerate_wallet ends with an address, the old WalletRecord is
\* gone, exactly one WalletRecord exists, and that record, the cache entry
\* and the wallet later sends sign with are the one newly created wallet.
C16_RegenerateReplacesWallet ==
    [][C16_RegenerateReplacesWallet_Step]_vars

\* C17: for any interleaving of concurrent award_referral_payout calls for
\* the escrow, at most one ReferralPayout row and at most one
\* escrow_commission ledger credit exist for it.
C17_AccrualAtMostOnce ==
    payouts <= 1 /\ commCredits <= 1

\* C17 witness: two calls both passed the existing-payout lookup, one of them
\* has written the payout and the credit, the other is about to insert.
C17_Witness ==
    \E r \in Slots :
        areq[r].pc = "payout" /\ payouts = 1 /\ commCredits = 1

\* C18: the referrer's ledger balance (credits minus debits) is never
\* negative, whatever the interleaving of accruals and withdrawals.
C18_BalanceNonNegative ==
    balance >= 0

\* C19: a withdrawal that failed after its debit was inserted has ended with
\* status failed and exactly one compensating credit of its amount.
C19_FailedWithdrawalCompensatedOnce ==
    \A r \in Slots :
        (wdreq[r].pc = "idle" /\ wdreq[r].status \notin {"none", "paid"})
        => (wdreq[r].status = "failed" /\ wdreq[r].comp = 1)

\* one step of C20_FeeSplitFixed
C20_FeeSplitFixed_Step ==
    /\ (efee'.via # "none" /\ efee.via = "none")
       => (efee'.has_fee /\ efee'.net + efee'.fee = efee'.amount)
    /\ (efee.via # "none" /\ efee'.via # "none")
       => (efee'.amount = efee.amount /\ efee'.has_fee = efee.has_fee
           /\ efee'.fee = efee.fee /\ efee'.net = efee.net)

\* C20: an escrow row, inserted by create_escrow or by cart_finalize, has
\* net_amount + platform_fee_amount = amount when it is inserted, and no
\* later operation up to its release changes amount, platform_fee_amount or
\* net_amount.
C20_FeeSplitFixed ==
    [][C20_FeeSplitFixed_Step]_vars

RECURSIVE SumPriceUsd(_)
SumPriceUsd(lines) ==
    IF lines = <<>> THEN 0 ELSE Head(lines).price_usd + SumPriceUsd(Tail(lines))

\* one step of C23_CheckoutPartitions
C23_CheckoutPartitions_Step ==
    (session.status = "none" /\ session'.status = "funding") =>
        LET gs == session'.groups
            aggs == session'.crypto_aggregators
            ords == session'.orders
            keys == {<<cart[n].payment_method, GroupCurrency(cart[n])>> : n \in 1..Len(cart)}
            Mine(k) == LET T(it) == /\ it.payment_method = gs[k].payment_method
                                    /\ GroupCurrency(it) = gs[k].currency
                       IN SelectSeq(cart, T)
            Line(it) == [listing_id |-> it.listing_id,
                         seller_id |-> Listing(it.listing_id).seller_id,
                         quantity |-> it.quantity,
                         price_usd |-> Listing(it.listing_id).price_usd * it.quantity]
            crypto == {k \in 1..Len(gs) : gs[k].payment_method = "crypto"}
            card == {k \in 1..Len(gs) : gs[k].payment_method # "crypto"}
        IN /\ Len(gs) = Cardinality(keys)
           /\ {<<gs[k].payment_method, gs[k].currency>> : k \in 1..Len(gs)} = keys
           /\ \A k \in 1..Len(gs) :
                /\ gs[k].items = [n \in 1..Len(Mine(k)) |-> Line(Mine(k)[n])]
                /\ gs[k].total_usd = SumPriceUsd(gs[k].items)
           /\ Len(aggs) = Cardinality(crypto)
           /\ \A k \in crypto :
                Cardinality({a \in 1..Len(aggs) : aggs[a].currency = gs[k].currency}) = 1
           /\ Len(ords) = Cardinality(card)
           /\ Len(ppOrders') = Len(ppOrders) + Cardinality(card)
           /\ \A k \in card :
                \E n \in 1..Len(ords) : ppOrders'[ords[n]] = gs[k].total_usd

\* C23: a cart_checkout that creates a session produces one group per
\* distinct (payment method, currency) pair of the cart, every cart line is
\* in exactly one group, a group's total_usd is the sum of price x quantity of
\* its lines, every crypto group has one aggregator (address and required
\* total) and every card group one authorization order for the group total.
C23_CheckoutPartitions ==
    [][C23_CheckoutPartitions_Step]_vars

\* C23 witness: a session with a crypto group and a card group, one of them
\* holding a line of quantity two
C23_Witness ==
    /\ session.status = "funding"
    /\ Len(session.groups) = 2
    /\ Len(session.crypto_aggregators) = 1
    /\ Len(session.orders) = 1
    /\ \E k \in 1..2 : session.groups[k].items[1].quantity = 2

\* one step of C22_FinalizeFanOut
C22_FinalizeFanOut_Step ==
    \A r \in Slots :
        LET gs == session.groups
            aggs == session.crypto_aggregators
            made == freq[r].made
            lines == UNION {{<<g, i>> : i \in 1..Len(gs[g].items)} : g \in 1..Len(gs)}
        IN /\ Len(freq'[r].made) > Len(made) =>
                /\ \A k \in 1..Len(aggs) : aggs[k].balance >= aggs[k].required
                /\ \A n \in 1..Len(session.orders) :
                     session.orders[n] \in freq[r].auth_ids
           /\ (freq[r].pc = "items" /\ freq[r].g > Len(gs) /\ freq'[r].pc = "idle") =>
                /\ Len(made) = Cardinality(lines)
                /\ \A p \in lines :
                     LET hits == {n \in 1..Len(made) : made[n].item = p}
                     IN /\ Cardinality(hits) = 1
                        /\ \A n \in hits :
                             /\ made[n].seller_id = gs[p[1]].items[p[2]].seller_id
                             /\ made[n].buyer_id = "buyer"
                /\ session'.status = "completed"

\* C22: cart_finalize inserts an escrow only if every crypto aggregator of
\* the session has a stored balance of at least its required total and every
\* card order of the session has a resolved authorization; a call that
\* returns from the end of the fan-out (200) has inserted exactly one escrow
\* per line item, with that item's seller and the checkout user as buyer,
\* and sets the session to completed.
C22_FinalizeFanOut ==
    [][C22_FinalizeFanOut_Step]_vars

\* C22 witness: a call has closed a session of two line items with a crypto
\* group whose aggregator required a payment
C22_Witness ==
        /\ FinalizeIdle
        /\ session.status = "completed"
        /\ cart = <<>>
        /\ \E k \in 1..Len(session.crypto_aggregators) :
             session.crypto_aggregators[k].required > 0
        /\ \/ Len(session.groups) = 2
           \/ \E g \in 1..Len(session.groups) : Len(session.groups[g].items) = 2

\* one step of C24_BoundedDelivery
C24_BoundedDelivery_Step ==
    /\ nreq'.attempts <= OUTBOUND_CALLBACK_RETRY_MAX
    \* a 2xx response ends the attempts and is recorded as success
    /\ nreq.got2xx =>
         /\ nreq'.attempts = nreq.attempts \/ nreq'.pc = "idle"
         /\ nreq'.pc = "idle" => fulfillment_status' = "success"
    \* a call whose attempts all failed records failed
    /\ (nreq.pc # "idle" /\ nreq'.pc = "idle" /\ ~nreq.got2xx) =>
         fulfillment_status' = "failed"
    \* success is recorded only for a 2xx response
    /\ (fulfillment_status' = "success" /\ fulfillment_status # "success") =>
         nreq.last = "2xx"

\* C24: trigger_delivery_callback makes at most OUTBOUND_CALLBACK_RETRY_MAX
\* delivery attempts; it stops at the first 2xx response and records
\* fulfillment_status success; when every attempt ends in a non-2xx response,
\* an exception or a timeout it records failed; a timeout or an exception is
\* never recorded as success.
C24_BoundedDelivery ==
    [][C24_BoundedDelivery_Step]_vars

\* C25: whenever the escrow has become funded (check_payment_status,
\* handle_paypal_authorization, paypal_webhook), trigger_delivery_callback is
\* eventually invoked for it.
C25_FundedNotifies ==
    [](status = "funded" => <>(ncalls > 0))

\* one step of C26_ForceRelease
C26_ForceRelease_Step ==
    \A r \in Slots :
        \* accepted only on a funded escrow, and then release_funds is entered
        /\ (req[r].pc = "idle" /\ req'[r].kind = "force") =>
             /\ status = "funded"
             /\ relCalls' = relCalls + 1
        \* and not entered again by the same request
        /\ (req[r].kind = "force" /\ req[r].pc # "idle") => relCalls' = relCalls
        \* the release succeeded iff the seller was paid
        /\ (req[r].kind = "force" /\ req[r].pc = "fin") =>
             /\ req[r].ok <=> req[r].sellerRes = "ok"
             /\ status' = IF req[r].ok THEN "completed" ELSE "release_failed"

\* C26: admin force_release is accepted only when the escrow is funded;
\* accepted, it enters release_funds exactly once, whatever buyer_action and
\* seller_action are, and the escrow ends completed when the release
\* succeeded and release_failed otherwise.
C26_ForceRelease ==
    [][C26_ForceRelease_Step]_vars

\* C26 witness: a forced release has completed an escrow neither party has
\* confirmed
C26_Witness ==
    /\ AllIdle
    /\ status = "completed"
    /\ relCalls = 1
    /\ sellerPaid = 1
    /\ buyer_action = "none"
    /\ seller_action = "none"

\* one step of C28_CreateErrorLeavesNothing
C28_CreateErrorLeavesNothing_Step ==
    \* an error before or at the insert
    /\ (creq.pc = "idle" /\ creq'.pc = "idle" /\ creply' >= 400) =>
         escrows' = escrows
    \* an error after the insert
    /\ (creq.pc # "idle" /\ creq'.pc = "idle" /\ creply' >= 400) =>
         escrows' = SubSeq(escrows, 1, creq.n0)
    \* after a request has ended every pending row has its funding target
    /\ creq'.pc = "idle" =>
         \A n \in 1..Len(escrows') :
           escrows'[n].status = "pending" =>
             (escrows'[n].deposit_address \/ escrows'[n].paypal_order_id)

C27_CheckPayment_Step ==
    (/\ cpReply = NoReply /\ cpReply' # NoReply /\ cpReply'.status # "403"
     /\ status = "pending" /\ payment_method = "crypto" /\ deposit_address) =>
        /\ cpReply'.status \in {"funded", "pending"}
        /\ cpReply'.status = "funded" <=> (cpReply'.read = "ok" /\ incoming >= Amount)
        /\ cpReply'.status = "funded" <=> status' = "funded"
        /\ cpReply'.status = "pending" => (status' = status /\ tx' = tx)

C29_WithdrawRejected_Step ==
    /\ \A r \in Slots :
          (wdreq[r].pc = "idle" /\ wdreq'[r].pc # "idle")
          => /\ wdreq'[r].amt >= MIN_WITHDRAW_USD
             /\ wdreq'[r].amt <= 10000
             /\ wdreq'[r].amt <= balance
             /\ withdrawals' = withdrawals
             /\ balance' = balance
    /\ (withdrawals' # withdrawals \/ balance' < balance)
       => \E r \in Slots :
            /\ wdreq[r].pc \in {"row", "debit"}
            /\ wdreq[r].amt >= MIN_WITHDRAW_USD
            /\ wdreq[r].amt <= 10000

\* C29: referral_withdraw goes past its validation only with an amount of at
\* least MIN_WITHDRAW_USD, at most 10000 and at most the ledger balance it
\* read; a rejected request inserts no withdrawal row and no ledger entry:
\* every withdrawal row and every debit is written by a request that passed.
C29_WithdrawRejected == [][C29_WithdrawRejected_Step]_vars

\* C29 witness: with a ledger balance above the maximum, a request for
\* exactly the maximum has passed the validation and inserted its row.
C29_Witness ==
    \E r \in Slots :
        /\ wdreq[r].pc = "debit"
        /\ wdreq[r].amt = MAX_WITHDRAW_USD
        /\ balance > MAX_WITHDRAW_USD
        /\ withdrawals = 1

\* one step of C30_ConflictWritesNothing
C30_ConflictWritesNothing_Step ==
    \A r \in Slots :
        /\ (req[r].kind = "confirm" /\ req[r].pc = "upd"
             /\ status # req[r].rstatus /\ req'[r] # req[r])
           => (UNCHANGED <<escrowVars, tx, railVars, relCalls, sellerPaid>> /\ req'[r].pc = "refetch")
        /\ (req[r].pc = "refetch" /\ req'[r] # req[r])
           => /\ UNCHANGED <<escrowVars, tx, railVars, relCalls, sellerPaid>>
              /\ req'[r].pc = "return"
              /\ req'[r].code = 200
              /\ req'[r].body = status
        /\ (req[r].pc = "return" /\ req'[r] # req[r])
           => (UNCHANGED <<escrowVars, tx, railVars, relCalls, sellerPaid>> /\ req'[r] = IdleReq)

\* C30: a confirm_escrow request whose conditional action update finds the
\* status changed since its read writes neither its action nor the status,
\* calls no settlement or rail, re-reads the escrow and answers 200 with the
\* state it re-read.
C30_ConflictWritesNothing == [][C30_ConflictWritesNothing_Step]_vars

\* C30 witness: a request that read funded lost to the other party's flip
\* to processing and is about to return the processing escrow, while the
\* winner's release is still under way.
C30_Witness ==
    \E r, q \in Slots :
        /\ req[r].pc = "return"
        /\ req[r].body = "processing"
        /\ req[r].code = 200
        /\ req[q].pc = "rel"

\* C31: no thread holds wallet_cache_lock while it is blocked in a CryptoRail
\* call (wallet generation, address derivation, private-key derivation,
\* transfer submission) of generate_crypto_address or
\* send_crypto_transaction_kms.
C31_NoLockAcrossRail ==
    \A t \in Slots : lthr[t].pc \in RailPcs => lockOwner # t

\* C31 witness: one thread is blocked in a rail call while another thread is
\* inside a with-block, holding the lock.
C31_Witness ==
    \E t, u \in Slots :
        /\ lthr[t].pc \in RailPcs
        /\ lockOwner = u
        /\ lthr[u].pc \in {"cache", "select", "store", "k_currency", "k_wallet"}

\* one step of C32_CacheAgreesWithStore
C32_CacheAgreesWithStore_Step ==
    /\ \A a \in returned' \ returned :
          walletCache' = a /\ walletRows' = {a}
    /\ walletCache' # 0 => walletRows' = {walletCache'}

\* C32: whenever generate_crypto_address returns an address, the cache and
\* the escrow_wallets store both hold the wallet with that address, whatever
\* the outcome of the store insert; a cache entry always equals the store's
\* record.
C32_CacheAgreesWithStore == [][C32_CacheAgreesWithStore_Step]_vars

\* C33: once every award_referral_payout call has returned, with any result
\* and also after a store failure between its two inserts, the escrow has a
\* ReferralPayout row iff it has exactly one escrow_commission ledger credit;
\* a call writes nothing when a payout exists or the buyer has no referrer.
C33_PayoutIffCredit ==
    (\A r \in Slots : areq[r].pc = "idle")
    => /\ (payouts > 0) <=> (commCredits = 1)
       /\ ~has_referrer => (payouts = 0 /\ commCredits = 0)

\* the percent and fixed fee C34 describes: those of tier i of the method's
\* rules, or of the method default when i = 0; plus the currency's surcharge
C34_Adjusted(i) ==
    LET a == priceArgs
        mdef == a.rules.methods[a.payment_method]
        cdef == IF a.currency = "none" THEN NoCurrencyRule
                ELSE a.rules.currencies[a.currency]
        p == IF ~mdef.present THEN DefaultPercent(a.base, a.payment_method)
             ELSE IF i = 0 THEN mdef.percent ELSE mdef.tiers[i].percent
        f == IF ~mdef.present THEN 0
             ELSE IF i = 0 THEN mdef.fixed_usd ELSE mdef.tiers[i].fixed_usd
    IN a.base * (1000 + p + (IF cdef.present THEN cdef.percent ELSE 0))
       + 1000 * (f + (IF cdef.present THEN cdef.fixed_usd ELSE 0))

\* the tiers C34 selects: matching, with the greatest min_amount; {0} when no
\* tier matches
C34_Selected ==
    LET a == priceArgs
        mdef == a.rules.methods[a.payment_method]
        ts == IF mdef.present THEN mdef.tiers ELSE <<>>
        match == {i \in DOMAIN ts : TierMatches(ts[i], a.base)}
    IN IF match = {} THEN {0}
       ELSE {i \in match : \A j \in match : ts[j].min_amount <= ts[i].min_amount}

\* C34: apply_pricing_rules takes percent and fixed fee from the matching
\* tier with the greatest min_amount, or from the method default when no
\* tier matches, adds the currency's surcharge, returns
\* base * (1 + total_percent/100) + total_fixed rounded to cents, and the
\* result is never below 0.01, for any base amount and any rules, including
\* no rules.
C34_PricingRules ==
    priced # -1
    => /\ priced >= 1
       /\ priceArgs.rules.present
          => \E i \in C34_Selected :
               priced = (IF C34_Adjusted(i) < 10000 THEN 1
                         ELSE (C34_Adjusted(i) + 5000) \div 10000)

\* C35: for any interleaving of an admin force_release with the two parties'
\* confirm_escrow(release) requests on the same funded escrow, release_funds
\* is invoked at most once for the escrow.
C35_ForceAndConfirmReleaseOnce ==
    relCalls <= 1

\* C36: no escrow ever has both a successful net-amount transfer to the
\* seller and a successful refund transfer to the buyer, for any sequence and
\* interleaving of confirm_escrow, process_refund and the admin's cancel and
\* force_release.
C36_NoReleaseAndRefund ==
    ~(sellerPaid > 0 /\ buyerRefunded > 0)

\* C37: at most one refund transfer is ever sent to the buyer for one escrow:
\* for concurrent process_refund requests, and for an admin cancel that
\* refunds followed by a buyer process_refund, the successful refund sends
\* from the escrow wallet number at most one.
C37_AtMostOneRefund ==
    buyerRefunded <= 1

\* the number of line items of the session
C38_LineItems ==
    LET gs == session.groups
    IN Cardinality(UNION {{<<g, n>> : n \in 1..Len(gs[g].items)} : g \in 1..Len(gs)})

\* one step of C38_FinalizeOnce
C38_FinalizeOnce_Step ==
    /\ sessionEscrows' <= C38_LineItems
    /\ session.status = "completed" => sessionEscrows' = sessionEscrows

\* C38: repeated cart_finalize calls on one checkout session create no more
\* escrows than a single successful call: the escrows created for the
\* session number at most its line items, and a completed session is never
\* fanned out again.
C38_FinalizeOnce == [][C38_FinalizeOnce_Step]_vars

\* the order of the session statuses
C39_Rank(st) ==
    CASE st = "none" -> 0
      [] st = "funding" -> 1
      [] st = "funded" -> 2
      [] st = "completed" -> 3

\* one step of C39_SessionStatusForward
C39_SessionStatusForward_Step ==
    C39_Rank(session'.status) >= C39_Rank(session.status)

\* C39: a checkout session's status only moves forward along funding ->
\* funded -> completed; no operation moves it from funded back to funding or
\* from completed to funding or funded.
C39_SessionStatusForward == [][C39_SessionStatusForward_Step]_vars

\* C40: a withdrawal whose payout send returned a transaction reference has
\* exactly one ledger debit and no withdrawal_failed credit, and no withdrawal
\* has more than one compensating credit, even when a store write after the
\* payout step raises.
C40_SentNeverCompensated ==
    \A r \in Slots :
        /\ wdreq[r].tx => (wdreq[r].deb = 1 /\ wdreq[r].comp = 0)
        /\ wdreq[r].comp <= 1

====
